---------------------------- MODULE Spec2Model ----------------------------
(***************************************************************************)
(* CaptionsPlease: the cut-plan merger (02-analyze-fillers.ts), the        *)
(* timeline remapper and caption timing generator (04-generate-timing.ts)  *)
(* and the project server with its pipeline orchestrator                   *)
(* (project-server.ts).                                                    *)
(*                                                                         *)
(* Times are integer milliseconds, as the code holds them after            *)
(* Math.round.  A transcript word's start and end, which the code holds    *)
(* as seconds, are held here in half-milliseconds, so that                 *)
(* Math.round(word.start * 1000) is a real rounding.                       *)
(***************************************************************************)
EXTENDS Integers, Sequences, FiniteSets, TLC

VARIABLES
    phase,            \* which step of a script's main() has run
    fillerWords,      \* FillerWord[] handed to generateCutsData
    pauses,           \* Pause[] handed to generateCutsData
    cutsData,         \* CutsData: 03_cuts.json
    adjusted,         \* originalMs -> adjustTimestamp(originalMs, segments)
    words,            \* WhisperWord[]: the words of 01_transcription.json
    emphasisData,     \* the word indices of 04_emphasis.json
    captionTiming,    \* CaptionTimingData: 05_caption_timing.json
    transcriptionDurationMs, \* Math.round(transcriptionData.duration * 1000)
    cutVideo,         \* 05-cut-video.ts: what main() did
    timingFile,       \* 05_caption_timing.json on disk: "json", "missing" or "invalid"
    emphasisList,     \* the suggestions parsed from the scoring response
    emphasisWords,    \* EmphasisWord[] returned by detectEmphasis
    \* Video.tsx, Captions.tsx: the composition and its control panel
    showControls,     \* CaptionedVideo prop: studio (TRUE) or render (FALSE)
    emphasisIndicesProp, \* CaptionedVideo prop emphasisIndices
    localPosition,    \* useState: the caption position being edited
    keyframes,        \* useState: PositionKeyframe[]
    emphasisToggles,  \* useState: Set of toggled originalIndex values
    frame,            \* useCurrentFrame()
    shown,            \* what <Captions> renders at this frame
    saveStatus,       \* the last POST /save: the fields of its body, the status answered
    \* project-server.ts
    inputDir,         \* files of config.inputDir
    dataDir,          \* files of config.dataDir
    outputDir,        \* files of config.outputDir
    tempDir,          \* files of config.tempDir
    publicDir,        \* the video-<timestamp>.mp4 files of publicDir
    projectFile,      \* content of .project, NoProject when the file is absent
    archive,          \* archiveDir: project name -> its four stored directories
    runs,             \* the runPipeline() calls made so far, by run number
    pipelineClients,  \* the Set of SSE responses
    sent,             \* what has been written to each client's response
    \* history, not program state
    clientState,      \* "new", "open" (request being served) or "closed"
    broadcasts,       \* every event handed to broadcastPipelineProgress, in order
    joinedAt,         \* Len(broadcasts) when the client was added to the set
    leftAt,           \* Len(broadcasts) when the client was deleted from the set
    stageLog,         \* per run: the stages started and how each ended
    children,         \* per run: the stage processes spawned, the events each
                      \* has emitted and the promise their handlers resolve
    copies,           \* per run: calls of copyVideoToPublic made by runPipeline
    disturbed         \* a request changed the working stores while a run was active

editorVars == <<timingFile, emphasisList, emphasisWords, showControls,
                emphasisIndicesProp,
                localPosition, keyframes, emphasisToggles, frame, shown, saveStatus>>

cutVars == <<transcriptionDurationMs, cutVideo>>

scriptVars == <<cutVars, phase, fillerWords, pauses, cutsData, adjusted, words, emphasisData,
                captionTiming, editorVars>>

storeVars == <<inputDir, dataDir, outputDir, tempDir, publicDir, projectFile, archive>>

pipelineVars == <<runs, pipelineClients, sent, clientState, broadcasts, joinedAt,
                  leftAt, stageLog, children, copies, disturbed>>

serverVars == <<storeVars, pipelineVars>>

vars == <<scriptVars, serverVars>>

MaxClients == 2

Clients == 1..MaxClients

\* getCurrentProjectName() returns null when .project does not exist.
NoProject == <<>>

\* position?: undefined
NoPosition == [x |-> -1, y |-> -1]

\* A request body: text that JSON.parse takes or not, and, when it does,
\* the fields it holds.
NoBody ==
    [valid |-> FALSE, hasPosition |-> FALSE, position |-> NoPosition,
     hasKeyframes |-> FALSE, positionKeyframes |-> <<>>]

\* No request has been answered.
NoSave == [valid |-> FALSE, hasPosition |-> FALSE, hasKeyframes |-> FALSE, status |-> 0]

\* <Captions> returns null when no page is current.
NoCaption ==
    [page |-> 0,
     position |-> [threw |-> FALSE, x |-> [n |-> 0, d |-> 1], y |-> [n |-> 0, d |-> 1]]]

\* No composition is mounted and no scoring response has been parsed.
\* 05-cut-video.ts has not run.
NoCut == [ran |-> FALSE, threw |-> FALSE, copied |-> FALSE, ffmpeg |-> FALSE,
          exitCode |-> 0, keep |-> <<>>]

CutIdle == transcriptionDurationMs = 0 /\ cutVideo = NoCut

EditorIdle ==
    /\ timingFile = "missing"
    /\ emphasisList = <<>>
    /\ emphasisWords = <<>>
    /\ showControls = FALSE
    /\ emphasisIndicesProp = {}
    /\ localPosition = [x |-> 50, y |-> 80]
    /\ keyframes = <<>>
    /\ emphasisToggles = {}
    /\ frame = 0
    /\ shown = NoCaption
    /\ saveStatus = NoSave

\* The server as started on an empty installation.
ServerIdle ==
    /\ inputDir = {}
    /\ dataDir = {}
    /\ outputDir = {}
    /\ tempDir = {}
    /\ publicDir = {}
    /\ projectFile = NoProject
    /\ archive = <<>>
    /\ runs = <<>>
    /\ pipelineClients = {}
    /\ sent = [c \in Clients |-> <<>>]
    /\ clientState = [c \in Clients |-> "new"]
    /\ broadcasts = <<>>
    /\ joinedAt = [c \in Clients |-> 0]
    /\ leftAt = [c \in Clients |-> 0]
    /\ stageLog = <<>>
    /\ children = <<>>
    /\ copies = <<>>
    /\ disturbed = FALSE

---------------------------------------------------------------------------
(* Generic helpers                                                         *)

Max(a, b) == IF a >= b THEN a ELSE b

Min(a, b) == IF a <= b THEN a ELSE b

Range(s) == {s[i] : i \in 1..Len(s)}

\* All sequences over S of length at most n.
SeqUpTo(S, n) == UNION {[1..k -> S] : k \in 0..n}

---------------------------------------------------------------------------
(* 02-analyze-fillers.ts: generateCutsData                                 *)

\* "Keep a small gap (200ms) to avoid jarring cuts"
keepMs == 200

\* segmentsToRemove.push({startMs, endMs, reason}) for each filler marked
\* for removal; the reason is held as the list of its parts.
FillerSegments(fs) ==
    LET keep == SelectSeq(fs, LAMBDA f : f.autoRemove)
    IN  [i \in 1..Len(keep) |->
            [startMs |-> keep[i].startMs, endMs |-> keep[i].endMs,
             reason |-> <<"filler">>]]

\* A pause marked for removal is cut only when longer than 2 * keepMs, and
\* then keepMs is kept at each side.
PauseSegments(ps) ==
    LET keep == SelectSeq(ps, LAMBDA p : p.autoRemove /\ p.durationMs > keepMs * 2)
    IN  [i \in 1..Len(keep) |->
            [startMs |-> keep[i].startMs + keepMs, endMs |-> keep[i].endMs - keepMs,
             reason |-> <<"pause">>]]

\* Array.prototype.sort((a, b) => a.startMs - b.startMs): a stable sort.
\* InsertByStart puts seg after every element whose startMs is <= its own.
RECURSIVE InsertByStart(_, _)
InsertByStart(sorted, seg) ==
    IF sorted = <<>> THEN <<seg>>
    ELSE IF seg.startMs < sorted[1].startMs THEN <<seg>> \o sorted
    ELSE <<sorted[1]>> \o InsertByStart(Tail(sorted), seg)

RECURSIVE SortByStart(_)
SortByStart(segs) ==
    IF segs = <<>> THEN <<>>
    ELSE InsertByStart(SortByStart(SubSeq(segs, 1, Len(segs) - 1)), segs[Len(segs)])

\* A mutant of MergeInto: touching segments are not merged (< for <=).
MergeIntoStrict(merged, seg) ==
    IF merged = <<>> THEN <<seg>>
    ELSE LET last == merged[Len(merged)]
         IN  IF seg.startMs < last.endMs
             THEN [merged EXCEPT ![Len(merged)] =
                      [startMs |-> last.startMs,
                       endMs |-> Max(last.endMs, seg.endMs),
                       reason |-> last.reason \o seg.reason]]
             ELSE Append(merged, seg)

\* One turn of the merge loop: seg joins the last merged segment when it
\* starts at or before that one's end, else it is pushed.
MergeInto(merged, seg) ==
    IF merged = <<>> THEN <<seg>>
    ELSE LET last == merged[Len(merged)]
         IN  IF seg.startMs <= last.endMs
             THEN [merged EXCEPT ![Len(merged)] =
                      [startMs |-> last.startMs,
                       endMs |-> Max(last.endMs, seg.endMs),
                       reason |-> last.reason \o seg.reason]]
             ELSE Append(merged, seg)

RECURSIVE MergeSegments(_)
MergeSegments(sorted) ==
    IF sorted = <<>> THEN <<>>
    ELSE MergeInto(MergeSegments(SubSeq(sorted, 1, Len(sorted) - 1)), sorted[Len(sorted)])

\* merged.reduce((sum, seg) => sum + (seg.endMs - seg.startMs), 0)
RECURSIVE SumDurations(_)
SumDurations(segs) ==
    IF segs = <<>> THEN 0
    ELSE (segs[1].endMs - segs[1].startMs) + SumDurations(Tail(segs))

generateCutsData(fs, ps) ==
    LET segmentsToRemove == SortByStart(FillerSegments(fs) \o PauseSegments(ps))
        merged == MergeSegments(segmentsToRemove)
    IN  [segmentsToRemove |-> merged, totalCutDurationMs |-> SumDurations(merged)]

EmptyCuts == [segmentsToRemove |-> <<>>, totalCutDurationMs |-> 0]

---------------------------------------------------------------------------
(* 04-generate-timing.ts: adjustTimestamp, msToFrame, generateCaptionTiming *)

\* A mutant of adjustTimestamp: a segment that contains the timestamp is
\* subtracted whole.
RECURSIVE adjustmentWhole(_, _)
adjustmentWhole(originalMs, removedSegments) ==
    IF removedSegments = <<>> THEN 0
    ELSE LET seg == removedSegments[1]
             rest == adjustmentWhole(originalMs, Tail(removedSegments))
         IN  IF seg.endMs <= originalMs THEN (seg.endMs - seg.startMs) + rest
             ELSE IF seg.startMs < originalMs THEN (seg.endMs - seg.startMs) + rest
             ELSE rest

\* A mutant of adjustTimestamp: a segment that contains the timestamp is
\* not subtracted at all.
RECURSIVE adjustmentNoPartial(_, _)
adjustmentNoPartial(originalMs, removedSegments) ==
    IF removedSegments = <<>> THEN 0
    ELSE LET seg == removedSegments[1]
             rest == adjustmentNoPartial(originalMs, Tail(removedSegments))
         IN  IF seg.endMs <= originalMs THEN (seg.endMs - seg.startMs) + rest
             ELSE rest

\* The loop of adjustTimestamp: the adjustment summed over the segments.
RECURSIVE adjustment(_, _)
adjustment(originalMs, removedSegments) ==
    IF removedSegments = <<>> THEN 0
    ELSE LET seg == removedSegments[1]
             rest == adjustment(originalMs, Tail(removedSegments))
         IN  IF seg.endMs <= originalMs THEN (seg.endMs - seg.startMs) + rest
             ELSE IF seg.startMs < originalMs THEN (originalMs - seg.startMs) + rest
             ELSE rest

adjustTimestampWhole(originalMs, removedSegments) ==
    originalMs - adjustmentWhole(originalMs, removedSegments)

adjustTimestampNoPartial(originalMs, removedSegments) ==
    originalMs - adjustmentNoPartial(originalMs, removedSegments)

adjustTimestamp(originalMs, removedSegments) ==
    originalMs - adjustment(originalMs, removedSegments)

fps == 30

\* Math.round((ms / 1000) * fps): the nearest integer, a half rounded up.
msToFrame(ms, f) == (2 * ms * f + 1000) \div 2000

\* Math.round(word.start * 1000), the word's time held in half-milliseconds.
roundMs(halfMs) == (halfMs + 1) \div 2

wordsPerPage == 4

\* The half-open overlap test of the "is this word cut" loop.
isCut(originalStartMs, originalEndMs, segments) ==
    \E k \in 1..Len(segments) :
        originalStartMs < segments[k].endMs /\ originalEndMs > segments[k].startMs

\* A mutant of isCut: only a word lying wholly inside a segment is cut.
isCutInside(originalStartMs, originalEndMs, segments) ==
    \E k \in 1..Len(segments) :
        segments[k].startMs <= originalStartMs /\ originalEndMs <= segments[k].endMs

\* The CaptionWord pushed for words[i] (i counts from 1; originalIndex from 0).
CaptionWordOf(ws, i, cuts, emphasisIndices, f) ==
    LET adjustedStartMs == adjustTimestamp(roundMs(ws[i].start), cuts.segmentsToRemove)
        adjustedEndMs == adjustTimestamp(roundMs(ws[i].end), cuts.segmentsToRemove)
    IN  [word |-> ws[i].word,
         startMs |-> adjustedStartMs,
         endMs |-> adjustedEndMs,
         startFrame |-> msToFrame(adjustedStartMs, f),
         endFrame |-> msToFrame(adjustedEndMs, f),
         isEmphasis |-> (i - 1) \in emphasisIndices,
         originalIndex |-> i - 1]

\* The "process each word" loop over words[1..n].
RECURSIVE CaptionWords(_, _, _, _, _)
CaptionWords(ws, n, cuts, emphasisIndices, f) ==
    IF n = 0 THEN <<>>
    ELSE LET before == CaptionWords(ws, n - 1, cuts, emphasisIndices, f)
         IN  IF isCut(roundMs(ws[n].start), roundMs(ws[n].end), cuts.segmentsToRemove)
             THEN before
             ELSE Append(before, CaptionWordOf(ws, n, cuts, emphasisIndices, f))

\* A mutant of Paginate: a last page of fewer than wordsPerPage words is
\* left out.
RECURSIVE PaginateFullOnly(_)
PaginateFullOnly(captionWords) ==
    IF Len(captionWords) < wordsPerPage THEN <<>>
    ELSE LET pageWords == SubSeq(captionWords, 1, wordsPerPage)
         IN  <<[words |-> pageWords,
                startFrame |-> pageWords[1].startFrame,
                endFrame |-> pageWords[Len(pageWords)].endFrame]>>
             \o PaginateFullOnly(SubSeq(captionWords, wordsPerPage + 1, Len(captionWords)))

\* A mutant of Paginate: a page ends where the first word of the next
\* page ends.
RECURSIVE PaginateLateEnd(_)
PaginateLateEnd(captionWords) ==
    IF captionWords = <<>> THEN <<>>
    ELSE LET pageWords == SubSeq(captionWords, 1, Min(wordsPerPage, Len(captionWords)))
             upTo == Min(wordsPerPage + 1, Len(captionWords))
         IN  <<[words |-> pageWords,
                startFrame |-> pageWords[1].startFrame,
                endFrame |-> captionWords[upTo].endFrame]>>
             \o PaginateLateEnd(SubSeq(captionWords, Len(pageWords) + 1, Len(captionWords)))

\* for (i = 0; i < captionWords.length; i += wordsPerPage): slice into pages.
RECURSIVE Paginate(_)
Paginate(captionWords) ==
    IF captionWords = <<>> THEN <<>>
    ELSE LET pageWords == SubSeq(captionWords, 1, Min(wordsPerPage, Len(captionWords)))
         IN  <<[words |-> pageWords,
                startFrame |-> pageWords[1].startFrame,
                endFrame |-> pageWords[Len(pageWords)].endFrame]>>
             \o Paginate(SubSeq(captionWords, Len(pageWords) + 1, Len(captionWords)))

generateCaptionTiming(ws, cuts, emphasisIndices, f, originalDurationMs) ==
    LET captionWords == CaptionWords(ws, Len(ws), cuts, emphasisIndices, f)
        finalDurationMs == originalDurationMs - cuts.totalCutDurationMs
    IN  [fps |-> f,
         totalFrames |-> msToFrame(finalDurationMs, f),
         durationMs |-> finalDurationMs,
         pages |-> Paginate(captionWords),
         allWords |-> captionWords,
         position |-> [x |-> 50, y |-> 80],
         positionKeyframes |-> <<>>]

NoTiming ==
    [fps |-> fps, totalFrames |-> 0, durationMs |-> 0, pages |-> <<>>,
     allWords |-> <<>>, position |-> [x |-> 50, y |-> 80], positionKeyframes |-> <<>>]

---------------------------------------------------------------------------
(* Inputs of generateCutsData                                              *)

MaxCutTick == 3
MaxFillers == 3
MaxPauses == 1

CutTimes == {k * keepMs : k \in 0..MaxCutTick}

\* analyzeFillers marks every filler autoRemove; a filler word may have
\* equal start and end.
FillerChoices ==
    {f \in [startMs : CutTimes, endMs : CutTimes, autoRemove : {TRUE}] :
        f.startMs <= f.endMs}

PauseChoices ==
    {p \in [startMs : CutTimes, endMs : CutTimes, durationMs : CutTimes,
            autoRemove : BOOLEAN] :
        p.startMs < p.endMs /\ p.durationMs = p.endMs - p.startMs}

\* Pauses lie between consecutive words: in time order, not overlapping.
PauseLists ==
    {ps \in SeqUpTo(PauseChoices, MaxPauses) :
        \A i \in 1..Len(ps) - 1 : ps[i].endMs <= ps[i + 1].startMs}

InitCuts ==
    /\ phase = "input"
    /\ CutIdle
    /\ fillerWords \in SeqUpTo(FillerChoices, MaxFillers)
    /\ pauses \in PauseLists
    /\ cutsData = EmptyCuts
    /\ adjusted = <<>>
    /\ words = <<>>
    /\ emphasisData = {}
    /\ captionTiming = NoTiming
    /\ EditorIdle
    /\ ServerIdle

\* main(): cutsData = generateCutsData(inputFile, fillerWords, pauses)
GenerateCuts ==
    /\ phase = "input"
    /\ cutsData' = generateCutsData(fillerWords, pauses)
    /\ phase' = "cuts"
    /\ UNCHANGED cutVars
    /\ UNCHANGED <<fillerWords, pauses, adjusted, words, emphasisData, captionTiming>>
    /\ UNCHANGED editorVars
    /\ UNCHANGED serverVars

NextCuts == GenerateCuts

SpecCuts == InitCuts /\ [][NextCuts]_vars

---------------------------------------------------------------------------
(* C1: the merged cut plan                                                 *)

\* The segments generateCutsData collects before sorting and merging.
CutInputs == FillerSegments(fillerWords) \o PauseSegments(pauses)

\* The grid cells [k * keepMs, (k + 1) * keepMs) lying inside a segment.
CellsOf(segs) ==
    {k \in 0..MaxCutTick - 1 :
        \E i \in 1..Len(segs) :
            segs[i].startMs <= k * keepMs /\ (k + 1) * keepMs <= segs[i].endMs}

Within(a, b) == b.startMs <= a.startMs /\ a.endMs <= b.endMs

\* C1: for every input list (any order, overlapping or touching), the
\* output of generateCutsData is sorted ascending by startMs, every segment
\* ends strictly before the next one starts, every input segment lies in
\* exactly one output segment, an output segment starts at the least start
\* and ends at the greatest end of the inputs merged into it, and
\* totalCutDurationMs is the length of the merged segments (the time the
\* inputs cover), not the sum of the input lengths; an empty input gives an
\* empty list and total 0.
C1_MergedCutPlan ==
    phase = "cuts" =>
        LET out == cutsData.segmentsToRemove
            inp == CutInputs
            members(j) == {i \in 1..Len(inp) : Within(inp[i], out[j])}
        IN  /\ \A j \in 1..Len(out) - 1 :
                /\ out[j].startMs <= out[j + 1].startMs
                /\ out[j].endMs < out[j + 1].startMs
            /\ \A i \in 1..Len(inp) :
                Cardinality({j \in 1..Len(out) : Within(inp[i], out[j])}) = 1
            /\ \A j \in 1..Len(out) :
                /\ members(j) # {}
                /\ \E i \in members(j) : inp[i].startMs = out[j].startMs
                /\ \E i \in members(j) : inp[i].endMs = out[j].endMs
            /\ CellsOf(out) = CellsOf(inp)
            /\ cutsData.totalCutDurationMs = keepMs * Cardinality(CellsOf(inp))
            /\ (inp = <<>> => out = <<>> /\ cutsData.totalCutDurationMs = 0)

\* Three inputs, overlapping and touching, merged into one segment whose
\* length is less than the sum of the input lengths.
C1_Witness ==
    /\ phase = "cuts"
    /\ Len(CutInputs) = 3
    /\ Len(cutsData.segmentsToRemove) = 1
    /\ \E i \in 1..2 : CutInputs[i].endMs = CutInputs[3].startMs
    /\ \E i \in 1..2 : CutInputs[i].startMs > CutInputs[i + 1].startMs
    /\ SumDurations(CutInputs) > cutsData.totalCutDurationMs

---------------------------------------------------------------------------
(* The timeline remapper on its own: adjustTimestamp over every timestamp  *)
(* of a valid cut plan                                                     *)

MaxRemapMs == 6
MaxRemapSegs == 3

\* The lists of at most n segments with bounds in T, none starting before
\* from: sorted, each ending at or before the start of the next.
RECURSIVE SegmentLists(_, _, _)
SegmentLists(T, n, from) ==
    IF n = 0 THEN {<<>>}
    ELSE {<<>>} \cup
         UNION {{<<g>> \o rest : rest \in SegmentLists(T, n - 1, g.endMs)} :
                g \in {h \in [startMs : T, endMs : T, reason : {<<"edit">>}] :
                          from <= h.startMs /\ h.startMs <= h.endMs}}

\* Valid cut plans: sorted, non-overlapping segments with bounds in T, at
\* most n of them, with the total generateCutsData writes beside them.
CutPlans(T, n) ==
    {[segmentsToRemove |-> segs, totalCutDurationMs |-> SumDurations(segs)] :
        segs \in SegmentLists(T, n, 0)}

InitRemap ==
    /\ phase = "input"
    /\ CutIdle
    /\ fillerWords = <<>>
    /\ pauses = <<>>
    /\ cutsData \in CutPlans(0..MaxRemapMs, MaxRemapSegs)
    /\ adjusted = <<>>
    /\ words = <<>>
    /\ emphasisData = {}
    /\ captionTiming = NoTiming
    /\ EditorIdle
    /\ ServerIdle

\* adjustTimestamp applied to every timestamp up to one past the plan's range.
RemapAll ==
    /\ phase = "input"
    /\ adjusted' = [t \in 0..MaxRemapMs + 1 |->
                        adjustTimestamp(t, cutsData.segmentsToRemove)]
    /\ phase' = "remapped"
    /\ UNCHANGED cutVars
    /\ UNCHANGED <<fillerWords, pauses, cutsData, words, emphasisData, captionTiming>>
    /\ UNCHANGED editorVars
    /\ UNCHANGED serverVars

NextRemap == RemapAll

SpecRemap == InitRemap /\ [][NextRemap]_vars

\* C2: for a valid cut plan and timestamps 0 <= t1 < t2,
\* adjustTimestamp(t1) <= adjustTimestamp(t2), and adjustTimestamp(t) >= 0.
C2_RemapMonotone ==
    phase = "remapped" =>
        /\ \A t1, t2 \in DOMAIN adjusted : t1 < t2 => adjusted[t1] <= adjusted[t2]
        /\ \A t \in DOMAIN adjusted : adjusted[t] >= 0

\* Two segments; two timestamps inside a segment map to the same point and
\* two outside map to different points.
C2_Witness ==
    /\ phase = "remapped"
    /\ Len(cutsData.segmentsToRemove) >= 2
    /\ \E t1, t2 \in DOMAIN adjusted :
        /\ t1 < t2 /\ adjusted[t1] = adjusted[t2]
        /\ \E g \in Range(cutsData.segmentsToRemove) : g.startMs < t2 /\ t2 < g.endMs
    /\ \E t1, t2 \in DOMAIN adjusted : t1 < t2 /\ adjusted[t1] < adjusted[t2]

\* The removed instants before t: those in [0, t) that lie in a segment.
RemovedBefore(t, segs) ==
    {u \in 0..t - 1 : \E k \in 1..Len(segs) : segs[k].startMs <= u /\ u < segs[k].endMs}

\* C3: adjustTimestamp(t) is t minus the removed time lying in [0, t): every
\* segment ending at or before t in full, and of a segment containing t
\* only the part before t.  With no segments, adjustTimestamp(t) = t.
C3_RemapSubtractsRemoved ==
    phase = "remapped" =>
        /\ \A t \in DOMAIN adjusted :
            adjusted[t] = t - Cardinality(RemovedBefore(t, cutsData.segmentsToRemove))
        /\ (cutsData.segmentsToRemove = <<>> => \A t \in DOMAIN adjusted : adjusted[t] = t)

\* A timestamp strictly inside the second segment, with the first segment
\* wholly before it.
C3_Witness ==
    /\ phase = "remapped"
    /\ Len(cutsData.segmentsToRemove) >= 2
    /\ \E t \in DOMAIN adjusted :
        LET a == cutsData.segmentsToRemove[1]
            b == cutsData.segmentsToRemove[2]
        IN  /\ a.startMs < a.endMs
            /\ b.startMs < t /\ t < b.endMs
            /\ adjusted[t] = t - (a.endMs - a.startMs) - (t - b.startMs)

---------------------------------------------------------------------------
(* 04-generate-timing.ts main(): transcript, cut plan and emphasis indices *)
(* in, caption timing out                                                  *)

MaxTick == 4
MaxWords == 2
MaxTimingSegs == 2
TickMs == 50

TimingTimes == {k * TickMs : k \in 0..MaxTick}

\* Math.round((transcriptionData.duration || 0) * 1000): the recording ends
\* after the last word.
originalDurationMs == TickMs * MaxTick + 1

\* Transcripts: words in time order, not overlapping, a word's end never
\* before its start.  offset = 1 puts every time half a millisecond past a
\* grid point, which Math.round takes up.
RECURSIVE TickWordLists(_, _)
TickWordLists(n, from) ==
    IF n = 0 THEN {<<>>}
    ELSE {<<>>} \cup
         UNION {{<<w>> \o rest : rest \in TickWordLists(n - 1, w.e)} :
                w \in {v \in [s : from..MaxTick, e : from..MaxTick] : v.s <= v.e}}

Transcripts ==
    {[i \in 1..Len(ts) |->
        [word |-> "w",
         start |-> 2 * TickMs * ts[i].s + offset,
         end |-> 2 * TickMs * ts[i].e + offset]] :
     ts \in TickWordLists(MaxWords, 0), offset \in 0..1}

InitTiming ==
    /\ phase = "input"
    /\ CutIdle
    /\ fillerWords = <<>>
    /\ pauses = <<>>
    /\ cutsData \in CutPlans(TimingTimes, MaxTimingSegs)
    /\ adjusted = <<>>
    /\ words \in Transcripts
    /\ emphasisData \in {{}, {0}}
    /\ captionTiming = NoTiming
    /\ EditorIdle
    /\ ServerIdle

GenerateTiming ==
    /\ phase = "input"
    /\ captionTiming' =
         generateCaptionTiming(words, cutsData, emphasisData, fps, originalDurationMs)
    /\ phase' = "timed"
    /\ UNCHANGED cutVars
    /\ UNCHANGED <<fillerWords, pauses, cutsData, adjusted, words, emphasisData>>
    /\ UNCHANGED editorVars
    /\ UNCHANGED serverVars

NextTiming == GenerateTiming

SpecTiming == InitTiming /\ [][NextTiming]_vars

\* The instants a word takes up: [start, end), or its one instant when its
\* start and end are equal.
WordInstants(i) ==
    LET a == roundMs(words[i].start)
        b == roundMs(words[i].end)
    IN  IF a < b THEN a..b - 1 ELSE {a}

SegmentInstants(g) == g.startMs..g.endMs - 1

InAllWords(i) ==
    \E k \in 1..Len(captionTiming.allWords) :
        captionTiming.allWords[k].originalIndex = i - 1

InPages(i) ==
    \E p \in 1..Len(captionTiming.pages) :
        \E k \in 1..Len(captionTiming.pages[p].words) :
            captionTiming.pages[p].words[k].originalIndex = i - 1

\* C4: a word lying wholly inside a removed segment is in neither pages nor
\* allWords; a word that partly overlaps a removed segment is in neither;
\* a word that meets no removed segment is in both.
C4_CutWordsDropped ==
    phase = "timed" =>
        \A i \in 1..Len(words) :
            LET segs == Range(cutsData.segmentsToRemove)
                inside == \E g \in segs : WordInstants(i) \subseteq SegmentInstants(g)
                partial == \E g \in segs :
                              /\ WordInstants(i) \cap SegmentInstants(g) # {}
                              /\ ~(WordInstants(i) \subseteq SegmentInstants(g))
                clear == \A g \in segs : WordInstants(i) \cap SegmentInstants(g) = {}
            IN  /\ inside => ~InAllWords(i) /\ ~InPages(i)
                /\ partial => ~InAllWords(i) /\ ~InPages(i)
                /\ clear => InAllWords(i) /\ InPages(i)

---------------------------------------------------------------------------
(* project-server.ts: working stores                                       *)

\* A file is its name and the run whose upload or stage wrote it (which
\* stands for its content).
File(name, by) == [name |-> name, by |-> by]

Has(dir, name) == \E f \in dir : f.name = name

\* fs.writeFileSync / fs.copyFileSync: the file replaces one of the same name.
WriteFile(dir, f) == {g \in dir : g.name # f.name} \cup {f}

\* copyVideoToPublic(): when the timing data and the cut video it names
\* exist, the old video-*.mp4 files are unlinked and the cut video is copied.
copyVideoToPublic(data, temp, public) ==
    IF Has(data, "05_caption_timing") /\ Has(temp, "cut_video")
    THEN {File("video", (CHOOSE f \in temp : f.name = "cut_video").by)}
    ELSE public

---------------------------------------------------------------------------
(* project-server.ts: the pipeline                                         *)

PIPELINE_STEPS ==
    <<"Transcribing audio", "Analyzing fillers", "Detecting emphasis",
      "Generating timing", "Cutting video">>

totalSteps == Len(PIPELINE_STEPS)

\* What a stage script needs in the working stores to exit with code 0.
StageInputsPresent(step, input, data, temp) ==
    CASE step = 1 -> input # {}
      [] step = 2 -> Has(data, "01_transcription")
      [] step = 3 -> Has(data, "01_transcription") /\ Has(data, "03_cuts")
      [] step = 4 -> /\ Has(data, "01_transcription") /\ Has(data, "03_cuts")
                     /\ Has(data, "04_emphasis")
      [] step = 5 -> /\ Has(data, "01_transcription") /\ Has(data, "03_cuts")
                     /\ Has(data, "05_caption_timing") /\ input # {}

\* The files a stage script of run r has written when it exits with code 0.
StageData(step, data, r) ==
    CASE step = 1 -> WriteFile(data, File("01_transcription", r))
      [] step = 2 -> WriteFile(WriteFile(data, File("02_filler_analysis", r)),
                               File("03_cuts", r))
      [] step = 3 -> WriteFile(data, File("04_emphasis", r))
      [] step = 4 -> WriteFile(data, File("05_caption_timing", r))
      [] OTHER -> data

StageTemp(step, temp, r) ==
    CASE step = 1 -> WriteFile(temp, File("audio", r))
      [] step = 5 -> WriteFile(temp, File("cut_video", r))
      [] OTHER -> temp

\* How a spawned stage ends: 'close' with an exit code and what it wrote to
\* stderr, or 'error' (the spawn failed) with the error's message.
ChildOutcomes ==
    {[event |-> "close", code |-> 0, text |-> ""],
     [event |-> "close", code |-> 1, text |-> ""],
     [event |-> "close", code |-> 1, text |-> "Error: stage failed"],
     [event |-> "error", code |-> 1, text |-> "spawn npx ENOENT"]}

ExitCodeText(code) == IF code = 1 THEN "Exit code 1" ELSE "Exit code 0"

\* runPipelineStep: what the promise resolves to.
runPipelineStep(outcome) ==
    IF outcome.event = "close"
    THEN IF outcome.code = 0
         THEN [success |-> TRUE, error |-> ""]
         ELSE [success |-> FALSE,
               error |-> IF outcome.text # "" THEN outcome.text
                         ELSE ExitCodeText(outcome.code)]
    ELSE [success |-> FALSE, error |-> outcome.text]

\* A progress event.  run is history: the JSON on the wire has no such field.
ProgressEvent(r, step, stepName, status, error) ==
    [run |-> r, step |-> step, totalSteps |-> totalSteps, stepName |-> stepName,
     status |-> status, error |-> error]

\* The initial ping of GET /pipeline/progress.
Connected ==
    [run |-> 0, step |-> 0, totalSteps |-> 0, stepName |-> "",
     status |-> "connected", error |-> ""]

\* client.write(message): what has been written to the response.  A write
\* to a response whose connection is lost returns false and writes nothing.
write(c, written, data) ==
    IF clientState[c] = "broken" THEN written ELSE Append(written, data)

\* A mutant of broadcastPipelineProgress: a failed write throws, which ends
\* the loop before the clients after it are written to.
broadcastUntilFailure(log, clients, data) ==
    [c \in DOMAIN log |->
        IF c \in clients /\ \A d \in clients : d < c => clientState[d] # "broken"
        THEN write(c, log[c], data)
        ELSE log[c]]

\* A mutant of broadcastPipelineProgress: the loop stops after one client.
broadcastToFirst(log, clients, data) ==
    [c \in DOMAIN log |->
        IF c \in clients /\ \A d \in clients : c <= d THEN Append(log[c], data)
        ELSE log[c]]

\* broadcastPipelineProgress: client.write(message) for every client of the set.
broadcastPipelineProgress(log, clients, data) ==
    [c \in DOMAIN log |-> IF c \in clients THEN write(c, log[c], data) ELSE log[c]]

\* A mutant of runPipelineResume: a failed stage is reported and the loop
\* goes on to the next stage.
runPipelineNoReturn(r, run, result) ==
    IF run.step < totalSteps
    THEN [run |-> [run EXCEPT !.step = run.step + 1],
          event |-> IF result.success
                    THEN ProgressEvent(r, run.step + 1, PIPELINE_STEPS[run.step + 1],
                                       "running", "")
                    ELSE ProgressEvent(r, run.step, PIPELINE_STEPS[run.step], "error",
                                       result.error),
          started |-> TRUE, copy |-> FALSE]
    ELSE [run |-> [run EXCEPT !.status = "complete"],
          event |-> ProgressEvent(r, totalSteps, "Complete", "complete", ""),
          started |-> FALSE, copy |-> TRUE]

\* A mutant of runPipelineResume: copyVideoToPublic is called whenever the
\* loop is left, after a failure too.
runPipelineCopyAlways(r, run, result) ==
    IF ~result.success
    THEN [run |-> [run EXCEPT !.status = "error", !.error = result.error],
          event |-> ProgressEvent(r, run.step, PIPELINE_STEPS[run.step], "error",
                                  result.error),
          started |-> FALSE, copy |-> TRUE]
    ELSE IF run.step < totalSteps
    THEN [run |-> [run EXCEPT !.step = run.step + 1],
          event |-> ProgressEvent(r, run.step + 1, PIPELINE_STEPS[run.step + 1],
                                  "running", ""),
          started |-> TRUE, copy |-> FALSE]
    ELSE [run |-> [run EXCEPT !.status = "complete"],
          event |-> ProgressEvent(r, totalSteps, "Complete", "complete", ""),
          started |-> FALSE, copy |-> TRUE]

\* A mutant of runPipelineResume: after the last stage 'complete' is
\* broadcast and the function returns before copyVideoToPublic is called.
runPipelineCompleteFirst(r, run, result) ==
    IF ~result.success
    THEN [run |-> [run EXCEPT !.status = "error", !.error = result.error],
          event |-> ProgressEvent(r, run.step, PIPELINE_STEPS[run.step], "error",
                                  result.error),
          started |-> FALSE, copy |-> FALSE]
    ELSE IF run.step < totalSteps
    THEN [run |-> [run EXCEPT !.step = run.step + 1],
          event |-> ProgressEvent(r, run.step + 1, PIPELINE_STEPS[run.step + 1],
                                  "running", ""),
          started |-> TRUE, copy |-> FALSE]
    ELSE [run |-> [run EXCEPT !.status = "complete"],
          event |-> ProgressEvent(r, totalSteps, "Complete", "complete", ""),
          started |-> FALSE, copy |-> FALSE]

\* runPipeline from the point where `await runPipelineStep` returns result
\* to the next await or return: the run as it goes on, the one event it
\* broadcasts, whether the next stage was spawned and whether
\* copyVideoToPublic was called.
runPipelineResume(r, run, result) ==
    IF ~result.success
    THEN [run |-> [run EXCEPT !.status = "error", !.error = result.error],
          event |-> ProgressEvent(r, run.step, PIPELINE_STEPS[run.step], "error",
                                  result.error),
          started |-> FALSE, copy |-> FALSE]
    ELSE IF run.step < totalSteps
    THEN [run |-> [run EXCEPT !.step = run.step + 1],
          event |-> ProgressEvent(r, run.step + 1, PIPELINE_STEPS[run.step + 1],
                                  "running", ""),
          started |-> TRUE, copy |-> FALSE]
    ELSE [run |-> [run EXCEPT !.status = "complete"],
          event |-> ProgressEvent(r, totalSteps, "Complete", "complete", ""),
          started |-> FALSE, copy |-> TRUE]

RunActive == \E q \in 1..Len(runs) : runs[q].status = "running"

\* new Promise(...) before any handler has called resolve.
Pending == [settled |-> FALSE, result |-> [success |-> FALSE, error |-> ""]]

\* spawn(...): a process that has emitted nothing, and the promise
\* runPipeline awaits.
Spawned == [events |-> {}, promise |-> Pending]

\* A mutant of resolve: a call on a settled promise settles it again and
\* resumes the awaiting function once more.
resolveAgain(promise, result) ==
    [promise |-> [settled |-> TRUE, result |-> result], resumed |-> TRUE]

\* resolve(result): the first call settles the promise and resumes the
\* function that awaits it; a call on a settled promise does nothing.
resolve(promise, result) ==
    IF promise.settled THEN [promise |-> promise, resumed |-> FALSE]
    ELSE [promise |-> [settled |-> TRUE, result |-> result], resumed |-> TRUE]

MaxRuns == 2

ObservedRuns == 1

Videos == {"talk.mp4"}

\* POST /import, the 'end' handler with a well-formed upload: the input
\* store is cleared, the file saved, the response sent and runPipeline()
\* called, which runs to its first await: it broadcasts 'running' for stage
\* 1 and spawns it.
Import(video) ==
    /\ LET r == Len(runs) + 1
           event == ProgressEvent(r, 1, PIPELINE_STEPS[1], "running", "")
       IN  /\ inputDir' = {File(video, r)}
           /\ runs' = Append(runs, [step |-> 1, status |-> "running", error |-> ""])
           /\ sent' = broadcastPipelineProgress(sent, pipelineClients, event)
           /\ broadcasts' = Append(broadcasts, event)
           /\ stageLog' = Append(stageLog, <<[step |-> 1, ev |-> "start"]>>)
           /\ children' = Append(children, <<Spawned>>)
           /\ copies' = Append(copies, 0)
    /\ disturbed' = (disturbed \/ RunActive)
    /\ UNCHANGED <<dataDir, outputDir, tempDir, publicDir, projectFile, archive>>
    /\ UNCHANGED <<pipelineClients, clientState, joinedAt, leftAt>>
    /\ UNCHANGED scriptVars

\* The 'close' or 'error' event of the process spawned for stage k of run
\* r: its handler calls resolve.  When that settles the promise,
\* runPipeline resumes from its await with the result: it broadcasts, and
\* spawns the next stage or ends the run.  Otherwise nothing happens.
ChildEvent(r, k, outcome) ==
    /\ r \in 1..Len(runs)
    /\ k \in 1..Len(children[r])
    /\ outcome.event \notin children[r][k].events
    /\ LET result == runPipelineStep(outcome)
           settled == resolve(children[r][k].promise, result)
           emitted == [events |-> children[r][k].events \cup {outcome.event},
                       promise |-> settled.promise]
           step == runs[r].step
           data == IF result.success THEN StageData(step, dataDir, r) ELSE dataDir
           temp == IF result.success THEN StageTemp(step, tempDir, r) ELSE tempDir
           next == runPipelineResume(r, runs[r], result)
       IN  IF settled.resumed
           THEN /\ dataDir' = data
                /\ tempDir' = temp
                /\ publicDir' = IF next.copy THEN copyVideoToPublic(data, temp, publicDir)
                                ELSE publicDir
                /\ runs' = [runs EXCEPT ![r] = next.run]
                /\ sent' = broadcastPipelineProgress(sent, pipelineClients, next.event)
                /\ broadcasts' = Append(broadcasts, next.event)
                /\ stageLog' = [stageLog EXCEPT ![r] =
                      @ \o <<[step |-> step,
                              ev |-> IF result.success THEN "ok" ELSE "fail"]>>
                        \o (IF next.started
                            THEN <<[step |-> next.run.step, ev |-> "start"]>>
                            ELSE <<>>)]
                /\ children' = [children EXCEPT ![r] =
                      [@ EXCEPT ![k] = emitted]
                      \o (IF next.started THEN <<Spawned>> ELSE <<>>)]
                /\ copies' = [copies EXCEPT ![r] = @ + (IF next.copy THEN 1 ELSE 0)]
           ELSE /\ children' = [children EXCEPT ![r] = [@ EXCEPT ![k] = emitted]]
                /\ UNCHANGED <<dataDir, tempDir, publicDir, runs, sent, broadcasts,
                               stageLog, copies>>
    /\ UNCHANGED <<inputDir, outputDir, projectFile, archive>>
    /\ UNCHANGED <<pipelineClients, clientState, joinedAt, leftAt, disturbed>>

\* The stage of run r ends: the first event of its process, a 'close'
\* with code 0 only when the stage found what it reads.
StageEnds(r, outcome) ==
    /\ r \in 1..Len(runs)
    /\ runs[r].status = "running"
    /\ (outcome.event = "close" /\ outcome.code = 0)
          => StageInputsPresent(runs[r].step, inputDir, dataDir, tempDir)
    /\ ChildEvent(r, runs[r].step, outcome)

\* The stage of run r ends with outcome; what the stage computed is not
\* looked at.
StageCloses(r, outcome) == StageEnds(r, outcome) /\ UNCHANGED scriptVars

\* A mutant of removeClient: the 'close' handler leaves the response in the set.
keepClient(clients, c) == clients

\* req.on("close"): pipelineClients.delete(res)
removeClient(clients, c) == clients \ {c}

\* A mutant of sendPing: the handler returns without writing the ping.
skipPing(log) == log

\* res.write("data: {\"status\":\"connected\"}\n\n")
sendPing(log) == Append(log, Connected)

\* GET /pipeline/progress: the response joins the set and is sent the ping.
Subscribe(c) ==
    /\ clientState[c] = "new"
    /\ pipelineClients' = pipelineClients \cup {c}
    /\ sent' = [sent EXCEPT ![c] = sendPing(@)]
    /\ clientState' = [clientState EXCEPT ![c] = "open"]
    /\ joinedAt' = [joinedAt EXCEPT ![c] = Len(broadcasts)]
    /\ UNCHANGED <<runs, broadcasts, leftAt, stageLog, children, copies, disturbed>>
    /\ UNCHANGED storeVars
    /\ UNCHANGED scriptVars

\* The 'close' event of a progress request.
Disconnect(c) ==
    /\ clientState[c] \in {"open", "broken"}
    /\ pipelineClients' = removeClient(pipelineClients, c)
    /\ clientState' = [clientState EXCEPT ![c] = "closed"]
    /\ leftAt' = [leftAt EXCEPT ![c] =
          IF clientState[c] = "broken" THEN @ ELSE Len(broadcasts)]
    /\ UNCHANGED <<runs, sent, broadcasts, joinedAt, stageLog, children, copies,
                   disturbed>>
    /\ UNCHANGED storeVars
    /\ UNCHANGED scriptVars

\* The scripts' variables while only the server runs.
ScriptsIdle ==
    /\ phase = "input"
    /\ CutIdle
    /\ fillerWords = <<>>
    /\ pauses = <<>>
    /\ cutsData = EmptyCuts
    /\ adjusted = <<>>
    /\ words = <<>>
    /\ emphasisData = {}
    /\ captionTiming = NoTiming
    /\ EditorIdle

InitPipeline == ScriptsIdle /\ ServerIdle

\* Several imports, one observer.
NextPipeline ==
    \/ \E video \in Videos : Len(runs) < MaxRuns /\ Import(video)
    \/ \E r \in 1..MaxRuns, outcome \in ChildOutcomes : StageCloses(r, outcome)
    \/ Subscribe(1)
    \/ Disconnect(1)

SpecPipeline == InitPipeline /\ [][NextPipeline]_vars

\* One import, several observers.
NextObservers ==
    \/ \E video \in Videos : Len(runs) < ObservedRuns /\ Import(video)
    \/ \E r \in 1..ObservedRuns, outcome \in ChildOutcomes : StageCloses(r, outcome)
    \/ \E c \in Clients : Subscribe(c)
    \/ \E c \in Clients : Disconnect(c)

SpecObservers == InitPipeline /\ [][NextObservers]_vars

---------------------------------------------------------------------------
(* project-server.ts: project lifecycle                                    *)

\* A project name is its text as typed, followed by the suffixes that
\* getUniqueProjectName appended: <<"demo", "2">> is "demo-2".
InvalidTexts == {"", "a/b", "a\\b", ".."}

\* What is on disk, as the lifecycle functions read and write it.
Disk ==
    [input |-> inputDir, data |-> dataDir, output |-> outputDir, temp |-> tempDir,
     public |-> publicDir, project |-> projectFile, archive |-> archive]

NoEntry == [input |-> {}, data |-> {}, output |-> {}, temp |-> {}]

\* hasCurrentProject: only the input and data directories are looked at.
hasCurrentProject(d) == d.input # {} \/ d.data # {}

\* copyDirSync: the files of src are copied over those of dest.
copyDirSync(src, dest) == {g \in dest : ~Has(src, g.name)} \cup src

\* getUniqueProjectName: baseName, or baseName-2, baseName-3, ...
RECURSIVE UniqueFrom(_, _, _)
UniqueFrom(baseName, suffix, taken) ==
    LET name == IF suffix = 1 THEN baseName ELSE Append(baseName, ToString(suffix))
    IN  IF name \in taken THEN UniqueFrom(baseName, suffix + 1, taken) ELSE name

\* A mutant of getUniqueProjectName: the suffixed name is not looked up.
getUniqueProjectNameOnce(baseName, taken) ==
    IF baseName \in taken THEN Append(baseName, ToString(2)) ELSE baseName

getUniqueProjectName(baseName, taken) == UniqueFrom(baseName, 1, taken)

\* A mutant of archiveProject: the output directory is cleared without
\* being copied.
archiveProjectSkipOutput(d, name) ==
    IF ~hasCurrentProject(d)
    THEN [success |-> FALSE, error |-> "No current project to archive", disk |-> d]
    ELSE LET old == IF name \in DOMAIN d.archive THEN d.archive[name] ELSE NoEntry
             entry == [input |-> IF d.input # {} THEN copyDirSync(d.input, old.input)
                                 ELSE old.input,
                       data |-> IF d.data # {} THEN copyDirSync(d.data, old.data)
                                ELSE old.data,
                       output |-> old.output,
                       temp |-> IF d.temp # {} THEN copyDirSync(d.temp, old.temp)
                                ELSE old.temp]
         IN  [success |-> TRUE, error |-> "",
              disk |-> [d EXCEPT
                  !.archive = [n \in DOMAIN d.archive \cup {name} |->
                                  IF n = name THEN entry ELSE d.archive[n]],
                  !.input = {}, !.data = {}, !.output = {}, !.temp = {},
                  !.project = NoProject]]

\* archiveProject(name)
archiveProject(d, name) ==
    IF ~hasCurrentProject(d)
    THEN [success |-> FALSE, error |-> "No current project to archive", disk |-> d]
    ELSE LET old == IF name \in DOMAIN d.archive THEN d.archive[name] ELSE NoEntry
             entry == [input |-> IF d.input # {} THEN copyDirSync(d.input, old.input)
                                 ELSE old.input,
                       data |-> IF d.data # {} THEN copyDirSync(d.data, old.data)
                                ELSE old.data,
                       output |-> IF d.output # {} THEN copyDirSync(d.output, old.output)
                                  ELSE old.output,
                       temp |-> IF d.temp # {} THEN copyDirSync(d.temp, old.temp)
                                ELSE old.temp]
         IN  [success |-> TRUE, error |-> "",
              disk |-> [d EXCEPT
                  !.archive = [n \in DOMAIN d.archive \cup {name} |->
                                  IF n = name THEN entry ELSE d.archive[n]],
                  !.input = {}, !.data = {}, !.output = {}, !.temp = {},
                  !.project = NoProject]]

\* A mutant of createProject: the current project is not archived first.
createProjectNoArchive(d, name) ==
    IF name = <<>> \/ name[1] \in InvalidTexts
    THEN [success |-> FALSE, error |-> "Invalid project name", name |-> NoProject,
          disk |-> d]
    ELSE LET uniqueName == getUniqueProjectName(name, DOMAIN d.archive)
         IN  [success |-> TRUE, error |-> "", name |-> uniqueName,
              disk |-> [d EXCEPT !.project = uniqueName]]

\* createProject(name)
createProject(d, name) ==
    IF name = <<>> \/ name[1] \in InvalidTexts
    THEN [success |-> FALSE, error |-> "Invalid project name", name |-> NoProject,
          disk |-> d]
    ELSE LET archived == IF d.project # NoProject /\ hasCurrentProject(d)
                         THEN archiveProject(d, d.project).disk
                         ELSE d
             uniqueName == getUniqueProjectName(name, DOMAIN archived.archive)
         IN  [success |-> TRUE, error |-> "", name |-> uniqueName,
              disk |-> [archived EXCEPT !.project = uniqueName]]

\* A mutant of loadProject: the working stores are cleared before the
\* entry is looked for.
loadProjectClearFirst(d, name) ==
    IF name \notin DOMAIN d.archive
    THEN [success |-> FALSE, error |-> "not found in archive",
          disk |-> [d EXCEPT !.input = {}, !.data = {}, !.output = {}, !.temp = {}]]
    ELSE LET archived == IF /\ d.project # NoProject
                            /\ d.project # name
                            /\ hasCurrentProject(d)
                         THEN archiveProject(d, d.project).disk
                         ELSE d
             entry == archived.archive[name]
         IN  [success |-> TRUE, error |-> "",
              disk |-> [archived EXCEPT
                  !.input = entry.input, !.data = entry.data,
                  !.output = entry.output, !.temp = entry.temp,
                  !.archive = [n \in DOMAIN archived.archive \ {name} |->
                                  archived.archive[n]],
                  !.project = name,
                  !.public = copyVideoToPublic(entry.data, entry.temp, d.public)]]

\* A mutant of loadProject: the working stores are not cleared before the
\* entry is copied into them.
loadProjectNoClear(d, name) ==
    IF name \notin DOMAIN d.archive
    THEN [success |-> FALSE, error |-> "not found in archive", disk |-> d]
    ELSE LET archived == IF /\ d.project # NoProject
                            /\ d.project # name
                            /\ hasCurrentProject(d)
                         THEN archiveProject(d, d.project).disk
                         ELSE d
             entry == archived.archive[name]
         IN  [success |-> TRUE, error |-> "",
              disk |-> [archived EXCEPT
                  !.input = copyDirSync(entry.input, archived.input),
                  !.data = copyDirSync(entry.data, archived.data),
                  !.output = copyDirSync(entry.output, archived.output),
                  !.temp = copyDirSync(entry.temp, archived.temp),
                  !.archive = [n \in DOMAIN archived.archive \ {name} |->
                                  archived.archive[n]],
                  !.project = name,
                  !.public = copyVideoToPublic(entry.data, entry.temp, d.public)]]

\* A mutant of loadProject: the entry is left in the archive.
loadProjectKeepEntry(d, name) ==
    IF name \notin DOMAIN d.archive
    THEN [success |-> FALSE, error |-> "not found in archive", disk |-> d]
    ELSE LET archived == IF /\ d.project # NoProject
                            /\ d.project # name
                            /\ hasCurrentProject(d)
                         THEN archiveProject(d, d.project).disk
                         ELSE d
             entry == archived.archive[name]
         IN  [success |-> TRUE, error |-> "",
              disk |-> [archived EXCEPT
                  !.input = entry.input, !.data = entry.data,
                  !.output = entry.output, !.temp = entry.temp,
                  !.project = name,
                  !.public = copyVideoToPublic(entry.data, entry.temp, d.public)]]

\* loadProject(name)
loadProject(d, name) ==
    IF name \notin DOMAIN d.archive
    THEN [success |-> FALSE, error |-> "not found in archive", disk |-> d]
    ELSE LET archived == IF /\ d.project # NoProject
                            /\ d.project # name
                            /\ hasCurrentProject(d)
                         THEN archiveProject(d, d.project).disk
                         ELSE d
             entry == archived.archive[name]
         IN  [success |-> TRUE, error |-> "",
              disk |-> [archived EXCEPT
                  !.input = entry.input, !.data = entry.data,
                  !.output = entry.output, !.temp = entry.temp,
                  !.archive = [n \in DOMAIN archived.archive \ {name} |->
                                  archived.archive[n]],
                  !.project = name,
                  !.public = copyVideoToPublic(entry.data, entry.temp, d.public)]]

\* The working stores and the current-project marker.
WorkingStores(d) == <<d.input, d.data, d.output, d.temp, d.project>>

\* A lifecycle handler has run to its response and left d on disk.
Commit(d) ==
    /\ inputDir' = d.input
    /\ dataDir' = d.data
    /\ outputDir' = d.output
    /\ tempDir' = d.temp
    /\ publicDir' = d.public
    /\ projectFile' = d.project
    /\ archive' = d.archive
    /\ disturbed' = (disturbed \/ (RunActive /\ WorkingStores(d) # WorkingStores(Disk)))
    /\ UNCHANGED <<runs, pipelineClients, sent, clientState, broadcasts, joinedAt,
                   leftAt, stageLog, children, copies>>
    /\ UNCHANGED scriptVars

\* POST /projects
PostProjects(name) == Commit(createProject(Disk, name).disk)

\* POST /projects/:name/load
PostLoad(name) == Commit(loadProject(Disk, name).disk)

\* POST /projects/:name/archive
PostArchive(name) == Commit(archiveProject(Disk, name).disk)

\* 06-render.ts run to its end: it reads the timing data and the cut video
\* and leaves the captioned video in the output store (its video.mp4 in
\* the public store is removed again).
Render ==
    /\ Has(dataDir, "05_caption_timing")
    /\ Has(tempDir, "cut_video")
    /\ outputDir' = WriteFile(outputDir,
          File("captioned", (CHOOSE f \in tempDir : f.name = "cut_video").by))
    /\ UNCHANGED <<inputDir, dataDir, tempDir, publicDir, projectFile, archive>>
    /\ UNCHANGED pipelineVars
    /\ UNCHANGED scriptVars

Texts == {"demo", ".."}

\* The names a request can carry.
RequestNames == {<<t>> : t \in Texts}

\* Those that name a directory inside the archive directory.
ArchiveNames == {name \in RequestNames : name[1] \notin InvalidTexts}

\* The server with its lifecycle requests, imports and stages, no observer.
Next ==
    \/ \E name \in RequestNames : PostProjects(name)
    \/ \E name \in ArchiveNames : PostLoad(name)
    \/ \E name \in ArchiveNames : PostArchive(name)
    \/ \E video \in Videos : Len(runs) < MaxRuns /\ Import(video)
    \/ \E r \in 1..MaxRuns, outcome \in ChildOutcomes : StageCloses(r, outcome)
    \/ Render

Spec == InitPipeline /\ [][Next]_vars

\* C9: while a run is active no create, archive, load or import request
\* changes the input, data, output or temp store or the current-project
\* marker.
C9_StoresStable == ~disturbed

Last(s) == s[Len(s)]

Terminal(status) == status \in {"complete", "error"}

\* The stage log of a run: start 1, end 1, start 2, end 2, ..., and
\* nothing after a failed end.
StageLogSequential(log) ==
    /\ Len(log) >= 1
    /\ Len(log) <= 2 * totalSteps
    /\ \A i \in 1..Len(log) :
          /\ log[i].step = (i + 1) \div 2
          /\ (i % 2 = 1) => log[i].ev = "start"
          /\ (i % 2 = 0) => log[i].ev \in {"ok", "fail"}
    /\ \A i \in 1..(Len(log) - 1) : log[i].ev # "fail"

\* C5: within one run the stages start in the order 1..N, each only after
\* the one before it has ended with success and never while another stage of
\* the run executes; after a failed stage no stage of the run starts, and the
\* run ends in the error outcome, whose event names that stage.
C5_StagesSequential ==
    \A r \in 1..Len(runs) :
        LET log == stageLog[r] IN
        /\ StageLogSequential(log)
        /\ (runs[r].status = "running") <=> (Last(log).ev = "start")
        /\ (runs[r].status = "error") <=> (Last(log).ev = "fail")
        /\ (runs[r].status = "complete")
              <=> (Len(log) = 2 * totalSteps /\ Last(log).ev = "ok")
        /\ (runs[r].status = "error") =>
              /\ Last(log).step = runs[r].step
              /\ \E i \in 1..Len(broadcasts) :
                    /\ broadcasts[i].run = r
                    /\ broadcasts[i].status = "error"
                    /\ broadcasts[i].step = Last(log).step
                    /\ broadcasts[i].stepName = PIPELINE_STEPS[Last(log).step]

C5_Witness ==
    \E r \in 1..Len(runs) :
        /\ runs[r].status = "error"
        /\ runs[r].step = 3
        /\ Len(stageLog[r]) = 6

EventsOf(log, r) == SelectSeq(log, LAMBDA e : e.run = r)

IndexesOf(r) == {i \in 1..Len(broadcasts) : broadcasts[i].run = r}

\* c joined before the first event of run r and has not left before its
\* last one.
SubscribedThroughout(c, r) ==
    /\ clientState[c] # "new"
    /\ \A i \in IndexesOf(r) : joinedAt[c] < i
    /\ \/ clientState[c] = "open"
       \/ /\ Terminal(runs[r].status)
          /\ \A i \in IndexesOf(r) : i <= leftAt[c]

\* The events of one run in order: 'running' for the stages 1..k, then, once
\* the run has ended, one terminal event.
RunEventsWellFormed(es, run) ==
    LET k == run.step
        n == Len(es)
    IN  /\ n = k + (IF Terminal(run.status) THEN 1 ELSE 0)
        /\ \A i \in 1..k :
              /\ es[i].status = "running"
              /\ es[i].step = i
              /\ es[i].stepName = PIPELINE_STEPS[i]
              /\ es[i].error = ""
        /\ \A i \in 1..n : es[i].totalSteps = totalSteps
        /\ (run.status = "complete") =>
              /\ k = totalSteps
              /\ es[n].status = "complete"
              /\ es[n].step = totalSteps
        /\ (run.status = "error") =>
              /\ es[n].status = "error"
              /\ es[n].step = k
              /\ es[n].stepName = PIPELINE_STEPS[k]
              /\ es[n].error # ""

\* C6: the events broadcast for a run are 'running' for each started stage
\* 1..k in order, then exactly one terminal event ('complete' after all N
\* stages, or 'error' for stage k with a non-empty reason) and nothing after
\* it; every observer subscribed for the whole run was sent exactly these.
C6_ProgressBroadcast ==
    \A r \in 1..Len(runs) :
        /\ RunEventsWellFormed(EventsOf(broadcasts, r), runs[r])
        /\ \A c \in Clients :
              SubscribedThroughout(c, r)
                 => EventsOf(sent[c], r) = EventsOf(broadcasts, r)

C6_Witness ==
    \E r \in 1..Len(runs) :
        /\ runs[r].status = "error"
        /\ runs[r].step = 2
        /\ runs[r].error = "Exit code 1"
        /\ \A c \in Clients : SubscribedThroughout(c, r)
        /\ clientState[1] = "open"
        /\ clientState[2] = "closed"

\* C7: copyVideoToPublic has run exactly once for a run that is complete,
\* which leaves a video in the public store, and not at all for a run that
\* is running or has ended in error.
C7_FinishOnce ==
    \A r \in 1..Len(runs) :
        /\ copies[r] = (IF runs[r].status = "complete" THEN 1 ELSE 0)
        /\ (runs[r].status = "complete") => publicDir # {}

C7_Witness ==
    /\ \E r \in 1..Len(runs) : runs[r].status = "complete" /\ copies[r] = 1
    /\ \E r \in 1..Len(runs) : runs[r].status = "error" /\ copies[r] = 0

\* C8: at most one pipeline run is active at any time, so that no two stage
\* subprocesses execute concurrently.
C8_SingleActiveRun ==
    Cardinality({r \in 1..Len(runs) : runs[r].status = "running"}) <= 1

\* The progress events c was sent: all but the initial ping.
ProgressSent(c) == IF sent[c] = <<>> THEN <<>> ELSE Tail(sent[c])

\* The events broadcast while c was in pipelineClients.
BroadcastWhileSubscribed(c) ==
    CASE clientState[c] = "new" -> <<>>
      [] clientState[c] = "open" -> SubSeq(broadcasts, joinedAt[c] + 1, Len(broadcasts))
      [] clientState[c] = "closed" -> SubSeq(broadcasts, joinedAt[c] + 1, leftAt[c])

C10_Delivery ==
    /\ \A c \in Clients : ProgressSent(c) = BroadcastWhileSubscribed(c)
    /\ \A c \in Clients : (c \in pipelineClients) <=> (clientState[c] = "open")
    /\ \A r \in 1..Len(runs) :
          runs[r].status = "running"
             => \A o \in ChildOutcomes : o.code # 0 => ENABLED StageCloses(r, o)

C10_RunUntouched ==
    (pipelineClients' # pipelineClients)
       => UNCHANGED <<runs, stageLog, copies, broadcasts, storeVars>>

\* C10: a step that adds or removes an observer changes no run, stage log,
\* broadcast or store, and no set of observers keeps a stage of a running run
\* from ending; an observer was sent exactly the events broadcast while it
\* was in pipelineClients, none from before it joined or after it left.
C10_ObserversDoNotInterfere == []C10_Delivery /\ [][C10_RunUntouched]_vars

C10_Witness ==
    /\ clientState[1] = "closed"
    /\ 0 < joinedAt[1]
    /\ joinedAt[1] < leftAt[1]
    /\ leftAt[1] < Len(broadcasts)
    /\ \E r \in 1..Len(runs) : runs[r].status = "complete"


---------------------------------------------------------------------------
\* C11: the first event written to an observer is the connection ping, also
\* when it subscribes while a run is active; every progress event comes
\* after it, and the ping is written once.
C11_HandshakeFirst ==
    \A c \in Clients :
        /\ (clientState[c] # "new") => sent[c] # <<>>
        /\ (sent[c] # <<>>) =>
              /\ sent[c][1] = Connected
              /\ \A i \in 2..Len(sent[c]) : sent[c][i].status # "connected"

C11_Witness ==
    \E c \in Clients :
        /\ joinedAt[c] > 0
        /\ broadcasts[joinedAt[c]].status = "running"
        /\ Len(sent[c]) >= 2
        /\ sent[c][2].status = "running"


---------------------------------------------------------------------------
\* The connection of an observer is lost; the 'close' event of its request
\* has not been dispatched yet, so its response is still in pipelineClients.
ConnectionLost(c) ==
    /\ clientState[c] = "open"
    /\ clientState' = [clientState EXCEPT ![c] = "broken"]
    /\ leftAt' = [leftAt EXCEPT ![c] = Len(broadcasts)]
    /\ UNCHANGED <<runs, pipelineClients, sent, broadcasts, joinedAt, stageLog,
                   children, copies, disturbed>>
    /\ UNCHANGED storeVars
    /\ UNCHANGED scriptVars

CloseDispatched == \E c \in Clients : clientState[c] = "broken" /\ Disconnect(c)

\* One import, several observers, connections that are lost.
NextFailures ==
    \/ \E video \in Videos : Len(runs) < ObservedRuns /\ Import(video)
    \/ \E r \in 1..ObservedRuns, outcome \in ChildOutcomes : StageCloses(r, outcome)
    \/ \E c \in Clients : Subscribe(c)
    \/ \E c \in Clients : Disconnect(c)
    \/ \E c \in Clients : ConnectionLost(c)

\* The event loop dispatches the 'close' event of a lost connection.
SpecFailures == InitPipeline /\ [][NextFailures]_vars /\ WF_vars(CloseDispatched)

C12_OthersServed ==
    /\ \A c \in Clients :
          clientState[c] = "open"
             => ProgressSent(c) = SubSeq(broadcasts, joinedAt[c] + 1, Len(broadcasts))
    /\ \A r \in 1..Len(runs) :
          runs[r].status = "running"
             => \A o \in ChildOutcomes : o.code # 0 => ENABLED StageCloses(r, o)

C12_FailedDropped ==
    \A c \in Clients : (clientState[c] = "broken") ~> (c \notin pipelineClients)

\* C12: whatever observers have lost their connection, every event is
\* written to every observer whose connection is open and a running stage
\* can end and the run go on; an observer whose connection is lost is
\* eventually removed from pipelineClients.
C12_FailingObserverIsolated == []C12_OthersServed /\ C12_FailedDropped

C12_Witness ==
    /\ clientState[1] = "broken"
    /\ 1 \in pipelineClients
    /\ clientState[2] = "open"
    /\ joinedAt[2] < leftAt[1]
    /\ leftAt[1] < Len(broadcasts)
    /\ Len(sent[2]) = 1 + Len(broadcasts) - joinedAt[2]
    /\ Len(sent[1]) < 1 + Len(broadcasts) - joinedAt[1]


---------------------------------------------------------------------------
\* The names of the lifecycle requests: "demo", "demo-2" and "a\b", which
\* createProject refuses and which is a plain directory name to the others.
LifecycleNames == {<<"demo">>, <<"demo", "2">>, <<"a\\b">>}

\* The server with a client that sends a lifecycle request or an import
\* only when no run is active.
NextLifecycle ==
    \/ \E name \in LifecycleNames : ~RunActive /\ PostProjects(name)
    \/ \E name \in LifecycleNames : ~RunActive /\ PostLoad(name)
    \/ \E name \in LifecycleNames : ~RunActive /\ PostArchive(name)
    \/ \E video \in Videos : ~RunActive /\ Len(runs) < MaxRuns /\ Import(video)
    \/ \E r \in 1..MaxRuns, outcome \in ChildOutcomes : StageCloses(r, outcome)
    \/ Render

SpecLifecycle == InitPipeline /\ [][NextLifecycle]_vars

StoresEmpty(d) == d.input = {} /\ d.data = {} /\ d.output = {} /\ d.temp = {}

\* C13: after every successful create(name), here one requested while no
\* run is active, the four working stores are empty and the current-project
\* marker is the name the operation returned.
C13_CreateLeavesEmptyStores ==
    \A name \in LifecycleNames :
        LET result == createProject(Disk, name) IN
        (~RunActive /\ result.success) =>
            /\ StoresEmpty(result.disk)
            /\ result.disk.project = result.name


\* The name text-k as getUniqueProjectName writes it.
Suffixed(name, k) == Append(name, ToString(k))

\* Every archive entry holds what an import brought in, so no more than
\* MaxRuns names are taken.
MaxSuffix == MaxRuns + 2

\* C14: the name create(name) allocates is name when name is not in the
\* archive as it is once the previous current project has been archived,
\* otherwise name-k for the least k >= 2 with name-k not in the archive; it
\* is never the name of an archive entry.
C14_UniqueName ==
    \A name \in LifecycleNames :
        LET result == createProject(Disk, name)
            taken == DOMAIN result.disk.archive
        IN  result.success =>
               /\ result.name \notin taken
               /\ (name \notin taken) => result.name = name
               /\ (name \in taken) =>
                     \E k \in 2..MaxSuffix :
                        /\ result.name = Suffixed(name, k)
                        /\ \A j \in 2..(k - 1) : Suffixed(name, j) \in taken

\* Created with "demo" when "demo" and "demo-2" were archived.
C14_Witness ==
    /\ projectFile = <<"demo", "3">>
    /\ {<<"demo">>, <<"demo", "2">>} \subseteq DOMAIN archive


\* The working stores as an archive entry holds them.
StoresOf(d) == [input |-> d.input, data |-> d.data, output |-> d.output, temp |-> d.temp]

\* create("demo") has been done with nothing archived, and content has been
\* put in the working stores.
FirstProjectHasContent ==
    /\ DOMAIN archive = {}
    /\ projectFile = <<"demo">>
    /\ ~StoresEmpty(Disk)

\* C15 as stated: create("demo"), content, create("demo") again leave an
\* archive with an entry "demo" and an entry "demo-2", and an empty current
\* project.
C15_BothArchived ==
    FirstProjectHasContent =>
        LET result == createProject(Disk, <<"demo">>) IN
        /\ result.success
        /\ {<<"demo">>, <<"demo", "2">>} \subseteq DOMAIN result.disk.archive
        /\ StoresEmpty(result.disk)

\* C15, amended: create("demo"), content, create("demo") again leave an
\* archive whose one entry is "demo", holding that content, and an empty
\* current project that is named "demo-2".
C15_ArchivedAndFresh ==
    FirstProjectHasContent =>
        LET result == createProject(Disk, <<"demo">>) IN
        /\ result.success
        /\ DOMAIN result.disk.archive = {<<"demo">>}
        /\ result.disk.archive[<<"demo">>] = StoresOf(Disk)
        /\ result.name = <<"demo", "2">>
        /\ result.disk.project = <<"demo", "2">>
        /\ StoresEmpty(result.disk)

C15_Witness ==
    /\ DOMAIN archive = {<<"demo">>}
    /\ archive[<<"demo">>].input # {}
    /\ projectFile = <<"demo", "2">>
    /\ StoresEmpty(Disk)


\* C16: archive(name) fails when the working stores are empty; when it
\* succeeds, here requested while no run is active, the archive has a new entry name that holds the four working
\* stores as they were, every entry that was there is unchanged, the four
\* stores are empty and the current-project marker is cleared.
C16_ArchiveMovesStores ==
    \A name \in LifecycleNames :
        LET result == archiveProject(Disk, name) IN
        /\ StoresEmpty(Disk) => ~result.success
        /\ (~RunActive /\ result.success) =>
              /\ name \notin DOMAIN archive
              /\ name \in DOMAIN result.disk.archive
              /\ result.disk.archive[name] = StoresOf(Disk)
              /\ \A n \in DOMAIN archive :
                    /\ n \in DOMAIN result.disk.archive
                    /\ result.disk.archive[n] = archive[n]
              /\ StoresEmpty(result.disk)
              /\ result.disk.project = NoProject


\* C17: load(name) of an archive entry: a current project of another name
\* whose working stores are not empty is first archived under its own name;
\* afterwards the working stores hold exactly what the entry held, the entry
\* is no longer in the archive and the current-project marker is name.
C17_LoadRestoresEntry ==
    \A name \in DOMAIN archive :
        LET result == loadProject(Disk, name) IN
        /\ result.success
        /\ StoresOf(result.disk) = archive[name]
        /\ name \notin DOMAIN result.disk.archive
        /\ result.disk.project = name
        /\ (projectFile # NoProject /\ projectFile # name /\ ~StoresEmpty(Disk)) =>
              /\ projectFile \in DOMAIN result.disk.archive
              /\ result.disk.archive[projectFile] = StoresOf(Disk)
        /\ \A n \in DOMAIN archive \ {name} :
              /\ n \in DOMAIN result.disk.archive
              /\ result.disk.archive[n] = archive[n]

\* "demo" was loaded while "demo-2" was current and held content.
C17_Witness ==
    /\ projectFile = <<"demo">>
    /\ <<"demo", "2">> \in DOMAIN archive
    /\ archive[<<"demo", "2">>].input # {}
    /\ inputDir # {}
    /\ <<"demo">> \notin DOMAIN archive


\* C18: archive with no content in the input and data stores, and load of a
\* name that is not in the archive, return a failure with a reason and
\* leave the marker, the four working stores and every archive entry as
\* they were.
C18_ConflictsChangeNothing ==
    \A name \in LifecycleNames :
        /\ ~hasCurrentProject(Disk) =>
              LET result == archiveProject(Disk, name) IN
              /\ ~result.success
              /\ result.error # ""
              /\ result.disk = Disk
        /\ (name \notin DOMAIN archive) =>
              LET result == loadProject(Disk, name) IN
              /\ ~result.success
              /\ result.error # ""
              /\ result.disk = Disk

\* Nothing to archive and a name that is not archived, with a marker and
\* an archive entry to keep.
C18_Witness ==
    /\ ~hasCurrentProject(Disk)
    /\ projectFile # NoProject
    /\ DOMAIN archive # {}
    /\ \E name \in LifecycleNames : name \notin DOMAIN archive


Malformed(name) == name = <<>> \/ name[1] \in InvalidTexts

\* C19: create, archive and load each reject a malformed name (empty, or
\* with '/', '\' or '..' in it) with a failure and leave the marker, the
\* working stores and the archive unchanged.
C19_MalformedNamesRejected ==
    \A name \in LifecycleNames :
        (~RunActive /\ Malformed(name)) =>
            /\ ~createProject(Disk, name).success
            /\ createProject(Disk, name).disk = Disk
            /\ ~archiveProject(Disk, name).success
            /\ archiveProject(Disk, name).disk = Disk
            /\ ~loadProject(Disk, name).success
            /\ loadProject(Disk, name).disk = Disk


---------------------------------------------------------------------------
(* archiveProject and loadProject, one file-system call at a time          *)

StoreNames == <<"input", "data", "output", "temp">>

\* The archive with entry name replaced.
WithEntry(arch, name, entry) ==
    [n \in DOMAIN arch \cup {name} |-> IF n = name THEN entry ELSE arch[n]]

\* The for loop of archiveProject, one store: files, the files of the
\* store that copyDirSync has copied, are in the entry.
CopyToEntry(d, name, f, files) ==
    IF d[f] = {} THEN d
    ELSE [d EXCEPT !.archive =
            WithEntry(d.archive, name,
                      [d.archive[name] EXCEPT ![f] = copyDirSync(files, @)])]

\* A mutant of archiveStep: each store is cleared before it is copied.
archiveStepClearFirst(d, name, k) ==
    CASE k = 1 ->
           IF name \in DOMAIN d.archive THEN d
           ELSE [d EXCEPT !.archive = WithEntry(d.archive, name, NoEntry)]
      [] k \in 2..5 -> [d EXCEPT ![StoreNames[k - 1]] = {}]
      [] k \in 6..9 -> CopyToEntry(d, name, StoreNames[k - 5], d[StoreNames[k - 5]])
      [] k = 10 -> [d EXCEPT !.project = NoProject]

\* The k-th file-system call of archiveProject once hasCurrentProject() has
\* held: mkdirSync of the entry, copyDirSync of the four stores, clearDir of
\* the four stores, setCurrentProjectName(null).
archiveStep(d, name, k) ==
    CASE k = 1 ->
           IF name \in DOMAIN d.archive THEN d
           ELSE [d EXCEPT !.archive = WithEntry(d.archive, name, NoEntry)]
      [] k \in 2..5 -> CopyToEntry(d, name, StoreNames[k - 1], d[StoreNames[k - 1]])
      [] k \in 6..9 -> [d EXCEPT ![StoreNames[k - 5]] = {}]
      [] k = 10 -> [d EXCEPT !.project = NoProject]

ArchiveCalls == 10

\* The disk after the first k calls of archiveProject(name).
RECURSIVE archiveSteps(_, _, _)
archiveSteps(d, name, k) ==
    IF k = 0 THEN d ELSE archiveStep(archiveSteps(d, name, k - 1), name, k)

\* The disk when the k-th call, a copyDirSync, throws after it has copied
\* the files copied of its store.
archiveThrows(d, name, k, copied) ==
    CopyToEntry(archiveSteps(d, name, k - 1), name, StoreNames[k - 1], copied)


\* The k-th file-system call of loadProject once the entry has been found:
\* archiveProject of another current project, clearDir of the four stores,
\* copyDirSync of the entry's four directories, rmSync of the entry,
\* setCurrentProjectName(name), copyVideoToPublic().
loadStep(d, name, k) ==
    CASE k = 1 ->
           IF d.project # NoProject /\ d.project # name /\ hasCurrentProject(d)
           THEN archiveProject(d, d.project).disk
           ELSE d
      [] k \in 2..5 -> [d EXCEPT ![StoreNames[k - 1]] = {}]
      [] k \in 6..9 ->
           [d EXCEPT ![StoreNames[k - 5]] =
               copyDirSync(d.archive[name][StoreNames[k - 5]], @)]
      [] k = 10 ->
           [d EXCEPT !.archive = [n \in DOMAIN d.archive \ {name} |-> d.archive[n]]]
      [] k = 11 -> [d EXCEPT !.project = name]
      [] k = 12 -> [d EXCEPT !.public = copyVideoToPublic(d.data, d.temp, d.public)]

LoadCalls == 12

\* The disk after the first k calls of loadProject(name).
RECURSIVE loadSteps(_, _, _)
loadSteps(d, name, k) ==
    IF k = 0 THEN d ELSE loadStep(loadSteps(d, name, k - 1), name, k)

\* The disk when the k-th call, a copyDirSync, throws after it has copied
\* the files copied of the entry's directory.
loadThrows(d, name, k, copied) ==
    LET before == loadSteps(d, name, k - 1)
    IN  [before EXCEPT ![StoreNames[k - 5]] = copyDirSync(copied, @)]

\* The server process runs (phase is "input" while no script has run).
ServerUp == phase = "input"

\* An exception leaves a handler that does not catch it: the disk stays as
\* d and the server process ends.
Uncaught(d) ==
    /\ inputDir' = d.input
    /\ dataDir' = d.data
    /\ outputDir' = d.output
    /\ tempDir' = d.temp
    /\ publicDir' = d.public
    /\ projectFile' = d.project
    /\ archive' = d.archive
    /\ phase' = "exited"
    /\ UNCHANGED cutVars
    /\ UNCHANGED <<fillerWords, pauses, cutsData, adjusted, words, emphasisData,
                   captionTiming, editorVars>>
    /\ UNCHANGED pipelineVars

\* archiveProject(name) throws in its k-th call, a copyDirSync.
ArchiveThrows(name, k, copied) ==
    /\ hasCurrentProject(Disk)
    /\ Uncaught(archiveThrows(Disk, name, k, copied))

\* loadProject(name) throws in its k-th call, a copyDirSync.
LoadThrows(name, k, copied) ==
    /\ name \in DOMAIN archive
    /\ Uncaught(loadThrows(Disk, name, k, copied))

\* Requests are sent while the server runs and no run is active.
Quiet == ServerUp /\ ~RunActive

\* The server, on a disk whose copies can fail, with a client that sends
\* its requests only when no run is active.
NextFaults ==
    \/ \E name \in LifecycleNames : Quiet /\ PostProjects(name)
    \/ \E name \in LifecycleNames : Quiet /\ PostLoad(name)
    \/ \E name \in LifecycleNames : Quiet /\ PostArchive(name)
    \/ \E video \in Videos : Quiet /\ Len(runs) < ObservedRuns /\ Import(video)
    \/ \E r \in 1..ObservedRuns, outcome \in ChildOutcomes :
          ServerUp /\ StageCloses(r, outcome)
    \/ \E name \in LifecycleNames, k \in 2..5 :
          \E copied \in SUBSET Disk[StoreNames[k - 1]] :
             /\ Quiet
             /\ copied # Disk[StoreNames[k - 1]]
             /\ ArchiveThrows(name, k, copied)
    \/ \E name \in LifecycleNames, k \in 6..9 :
          /\ Quiet
          /\ name \in DOMAIN archive
          /\ \E copied \in SUBSET archive[name][StoreNames[k - 5]] :
                /\ copied # archive[name][StoreNames[k - 5]]
                /\ LoadThrows(name, k, copied)

SpecFaults == InitPipeline /\ [][NextFaults]_vars


\* Every file of every working store of d is in the entry name of arch.
AllCopied(d, arch, name) ==
    /\ name \in DOMAIN arch
    /\ \A i \in 1..Len(StoreNames) : d[StoreNames[i]] \subseteq arch[name][StoreNames[i]]

C20_ArchiveCopiesFirst(name) ==
    hasCurrentProject(Disk) =>
        /\ archiveSteps(Disk, name, ArchiveCalls) = archiveProject(Disk, name).disk
        /\ \A k \in 0..ArchiveCalls :
              LET t == archiveSteps(Disk, name, k) IN
              (StoresOf(t) # StoresOf(Disk)) => AllCopied(Disk, t.archive, name)
        /\ \A k \in 2..5 :
              \A copied \in SUBSET Disk[StoreNames[k - 1]] :
                 LET t == archiveThrows(Disk, name, k, copied) IN
                 /\ StoresOf(t) = StoresOf(Disk)
                 /\ t.project = projectFile

C20_LoadCopiesFirst(name) ==
    (name \in DOMAIN archive) =>
        /\ loadSteps(Disk, name, LoadCalls) = loadProject(Disk, name).disk
        /\ \A k \in 0..LoadCalls :
              LET t == loadSteps(Disk, name, k) IN
              (name \notin DOMAIN t.archive) => StoresOf(t) = archive[name]
        /\ \A k \in 6..9 :
              \A copied \in SUBSET archive[name][StoreNames[k - 5]] :
                 LET t == loadThrows(Disk, name, k, copied) IN
                 /\ name \in DOMAIN t.archive
                 /\ t.archive[name] = archive[name]

---------------------------------------------------------------------------
(* Video.tsx, Captions.tsx, Root.tsx: the composition, its captions and    *)
(* its control panel.  Positions are whole percentages, as the range       *)
(* sliders give them; an interpolated coordinate is a fraction n/d in      *)
(* lowest terms.                                                           *)

RECURSIVE GCD(_, _)
GCD(a, b) == IF b = 0 THEN a ELSE GCD(b, a % b)

\* The number n/d, d > 0 and n >= 0, in lowest terms.
Fraction(n, d) == LET g == GCD(n, d) IN [n |-> n \div g, d |-> d \div g]

Whole(v) == [n |-> v, d |-> 1]

DEFAULT_POSITION == [x |-> 50, y |-> 80]

\* updatedPages.flatMap((page) => page.words)
RECURSIVE flatMapWords(_)
flatMapWords(pages) ==
    IF pages = <<>> THEN <<>> ELSE Head(pages).words \o flatMapWords(Tail(pages))

\* A mutant of toggleWords: the toggle is looked up by the word's place in
\* its list instead of its originalIndex.
toggleWordsByPlace(ws, toggles) ==
    [k \in 1..Len(ws) |->
        [ws[k] EXCEPT !.isEmphasis =
            IF (k - 1) \in toggles THEN ~ws[k].isEmphasis ELSE ws[k].isEmphasis]]

\* page.words.map(...) of the current Video.tsx: a toggled word shows the
\* opposite of its stored isEmphasis.
toggleWords(ws, toggles) ==
    [k \in 1..Len(ws) |->
        [ws[k] EXCEPT !.isEmphasis =
            IF ws[k].originalIndex \in toggles THEN ~ws[k].isEmphasis
            ELSE ws[k].isEmphasis]]

\* A mutant of captionData: allWords is mapped from the base allWords
\* without the toggles.
captionDataStaleAllWords(base, pos, kfs, toggles) ==
    [base EXCEPT
        !.position = pos,
        !.positionKeyframes = kfs,
        !.pages = [p \in 1..Len(base.pages) |->
                      [base.pages[p] EXCEPT !.words = toggleWords(@, toggles)]]]

\* The captionData useMemo of the current Video.tsx: pages are mapped and
\* allWords is derived from the mapped pages.
captionData(base, pos, kfs, toggles) ==
    LET updatedPages ==
            [p \in 1..Len(base.pages) |->
                [base.pages[p] EXCEPT !.words = toggleWords(@, toggles)]]
    IN  [base EXCEPT
            !.position = pos,
            !.positionKeyframes = kfs,
            !.pages = updatedPages,
            !.allWords = flatMapWords(updatedPages)]

\* The word map of the earlier Video.tsx, which also takes the
\* emphasisIndices prop: a toggled word shows the opposite of its stored
\* isEmphasis, any other word its membership of the prop when the prop is
\* not empty.
overrideWords(ws, indices, toggles) ==
    LET emphasisSet == indices \cup toggles
    IN  [k \in 1..Len(ws) |->
            [ws[k] EXCEPT !.isEmphasis =
                IF ws[k].originalIndex \in toggles THEN ~ws[k].isEmphasis
                ELSE IF indices # {} THEN ws[k].originalIndex \in emphasisSet
                ELSE ws[k].isEmphasis]]

\* The captionData useMemo of the earlier Video.tsx: allWords and pages are
\* mapped separately.
captionDataWithIndices(base, indices, pos, kfs, toggles) ==
    [base EXCEPT
        !.position = pos,
        !.positionKeyframes = kfs,
        !.allWords = overrideWords(@, indices, toggles),
        !.pages = [p \in 1..Len(base.pages) |->
                      [base.pages[p] EXCEPT !.words = overrideWords(@, indices, toggles)]]]

handleEmphasisToggle(prev, wordIndex) ==
    IF wordIndex \in prev THEN prev \ {wordIndex} ELSE prev \cup {wordIndex}

\* render.ts: the emphasisIndices it passes as input props.
renderEmphasisIndices(timingData) ==
    {timingData.allWords[k].originalIndex :
        k \in {j \in 1..Len(timingData.allWords) : timingData.allWords[j].isEmphasis}}

\* RemotionRoot, legacy mode: the emphasis overrides applied to the parsed
\* captionDataJson when the emphasisIndices input prop is not empty.
legacyCaptionData(parsed, indices) ==
    LET override(ws) ==
            [k \in 1..Len(ws) |->
                [ws[k] EXCEPT !.isEmphasis = ws[k].originalIndex \in indices]]
    IN  IF indices = {} THEN parsed
        ELSE [parsed EXCEPT
                !.allWords = override(@),
                !.pages = [p \in 1..Len(@) |-> [@[p] EXCEPT !.words = override(@)]]]


\* Array.prototype.sort with (a, b) => a.frame - b.frame is stable: a
\* keyframe goes after every keyframe of the same or a smaller frame that
\* precedes it in the input.
RECURSIVE InsertByFrame(_, _)
InsertByFrame(sorted, k) ==
    IF sorted = <<>> THEN <<k>>
    ELSE IF Head(sorted).frame <= k.frame
         THEN <<Head(sorted)>> \o InsertByFrame(Tail(sorted), k)
         ELSE <<k>> \o sorted

\* A mutant of SortByFrame: the input order is trusted.
SortByFrameNot(kfs) == kfs

RECURSIVE SortByFrame(_)
SortByFrame(kfs) ==
    IF kfs = <<>> THEN <<>>
    ELSE InsertByFrame(SortByFrame(SubSeq(kfs, 1, Len(kfs) - 1)), kfs[Len(kfs)])

\* remotion interpolate(input, [in0, in1], [out0, out1]) with both sides
\* clamped, for in0 <= input <= in1.  It throws when the input range is not
\* strictly increasing.
interpolate(input, in0, in1, out0, out1) ==
    IF in0 >= in1 THEN [threw |-> TRUE, v |-> Whole(0)]
    ELSE [threw |-> FALSE,
          v |-> IF out0 <= out1
                THEN Fraction(out0 * (in1 - in0) + (out1 - out0) * (input - in0),
                              in1 - in0)
                ELSE Fraction(out0 * (in1 - in0) - (out0 - out1) * (input - in0),
                              in1 - in0)]

AtKeyframe(k) == [threw |-> FALSE, x |-> Whole(k.x), y |-> Whole(k.y)]

\* staticPosition || DEFAULT_POSITION
StaticOrDefault(staticPosition) ==
    LET p == IF staticPosition = NoPosition THEN DEFAULT_POSITION ELSE staticPosition
    IN  [threw |-> FALSE, x |-> Whole(p.x), y |-> Whole(p.y)]

getInterpolatedPosition(f, kfs, staticPosition) ==
    IF kfs = <<>> THEN StaticOrDefault(staticPosition)
    ELSE LET sorted == SortByFrame(kfs)
             n == Len(sorted)
             found == {i \in 1..n - 1 : f >= sorted[i].frame /\ f <= sorted[i + 1].frame}
         IN  IF f <= sorted[1].frame THEN AtKeyframe(sorted[1])
             ELSE IF f >= sorted[n].frame THEN AtKeyframe(sorted[n])
             ELSE IF found = {} THEN StaticOrDefault(staticPosition)
             ELSE LET i == CHOOSE j \in found : \A m \in found : j <= m
                      current == sorted[i]
                      next == sorted[i + 1]
                      x == interpolate(f, current.frame, next.frame, current.x, next.x)
                      y == interpolate(f, current.frame, next.frame, current.y, next.y)
                  IN  [threw |-> x.threw \/ y.threw, x |-> x.v, y |-> y.v]

\* "frame <= pages[i].endFrame + 5"
pageTolerance == 5

\* A mutant of findCurrentPage: no tolerance after a page's end.
findCurrentPageExact(pages, f) ==
    LET containing == {p \in 1..Len(pages) :
                          f >= pages[p].startFrame /\ f <= pages[p].endFrame}
    IN  IF containing # {} THEN CHOOSE p \in containing : \A q \in containing : p <= q
        ELSE 0

\* findCurrentPage: the number of the page returned, 0 for null.
findCurrentPage(pages, f) ==
    LET containing == {p \in 1..Len(pages) :
                          f >= pages[p].startFrame /\ f <= pages[p].endFrame}
        ended == {p \in 1..Len(pages) : f > pages[p].endFrame}
    IN  IF containing # {} THEN CHOOSE p \in containing : \A q \in containing : p <= q
        ELSE IF ended = {} THEN 0
        ELSE LET i == CHOOSE p \in ended : \A q \in ended : q <= p
             IN  IF f <= pages[i].endFrame + pageTolerance THEN i ELSE 0

\* <Captions captionData previewPosition>: nothing when no page is current,
\* else the page at the preview position or, without one, at the
\* interpolated position.
Captions(data, previewPosition, f) ==
    LET currentPage == findCurrentPage(data.pages, f)
    IN  IF currentPage = 0 THEN NoCaption
        ELSE [page |-> currentPage,
              position |->
                IF previewPosition # NoPosition
                THEN [threw |-> FALSE, x |-> Whole(previewPosition.x),
                      y |-> Whole(previewPosition.y)]
                ELSE getInterpolatedPosition(f, data.positionKeyframes, data.position)]

\* A mutant of handleAddKeyframe: the keyframes of the current frame stay.
handleAddKeyframeKeep(kfs, currentFrame, position) ==
    SortByFrame(Append(kfs, [frame |-> currentFrame, x |-> position.x, y |-> position.y]))

\* handleAddKeyframe at the current frame and position.
handleAddKeyframe(kfs, currentFrame, position) ==
    LET newKeyframe == [frame |-> currentFrame, x |-> position.x, y |-> position.y]
        filtered == SelectSeq(kfs, LAMBDA k : k.frame # currentFrame)
    IN  SortByFrame(Append(filtered, newKeyframe))

handleDeleteKeyframe(kfs, f) == SelectSeq(kfs, LAMBDA k : k.frame # f)

handleUpdateKeyframe(kfs, f, x, y) ==
    [i \in 1..Len(kfs) |->
        IF kfs[i].frame = f THEN [kfs[i] EXCEPT !.x = x, !.y = y] ELSE kfs[i]]


---------------------------------------------------------------------------
(* The composition mounted on a generated caption timing: the studio       *)
(* (MainApp: showControls, no emphasisIndices) or a render (render.ts:     *)
(* no controls, the emphasisIndices of the stored timing)                  *)

MaxEditorWords == 5
EditorWordMs == 40
MaxSeekFrame == 14

\* Words that follow each other without a gap, EditorWordMs each.
EditorTranscripts ==
    {[i \in 1..n |->
        [word |-> "w",
         start |-> 2 * EditorWordMs * (i - 1),
         end |-> 2 * EditorWordMs * i]] : n \in 0..MaxEditorWords}

\* JSON.parse(captionDataJson): the stored timing in the studio, the
\* timing with RemotionRoot's emphasis overrides in a render.
baseCaptionData ==
    IF showControls THEN captionTiming
    ELSE legacyCaptionData(captionTiming, emphasisIndicesProp)

\* The captionData the composition hands to <Captions> and <ControlPanel>.
CaptionData == captionData(baseCaptionData, localPosition, keyframes, emphasisToggles)

\* previewPosition={showControls ? localPosition : null}
PreviewPosition == IF showControls THEN localPosition ELSE NoPosition

\* MainApp's composition has 300 frames; a render has totalFrames || 300.
durationInFrames ==
    IF showControls \/ captionTiming.totalFrames = 0 THEN 300
    ELSE captionTiming.totalFrames

\* Every state change renders again.
Rerender == shown' = Captions(CaptionData', PreviewPosition', frame')

\* The composition mounted on the stored timing.
Mounted ==
    /\ timingFile = "json"
    /\ emphasisList = <<>>
    /\ emphasisWords = <<>>
    /\ showControls \in BOOLEAN
    /\ emphasisIndicesProp =
         IF showControls THEN {} ELSE renderEmphasisIndices(captionTiming)
    /\ localPosition =
         IF captionTiming.position = NoPosition THEN DEFAULT_POSITION
         ELSE captionTiming.position
    /\ keyframes = captionTiming.positionKeyframes
    /\ emphasisToggles = {}
    /\ frame = 0
    /\ shown = Captions(CaptionData, PreviewPosition, frame)
    /\ saveStatus = NoSave

InitToggles ==
    /\ phase = "timed"
    /\ CutIdle
    /\ fillerWords = <<>>
    /\ pauses = <<>>
    /\ cutsData \in CutPlans(TimingTimes, 1)
    /\ adjusted = <<>>
    /\ words \in EditorTranscripts
    /\ emphasisData \in {{}, {1, 4}}
    /\ captionTiming =
         generateCaptionTiming(words, cutsData, emphasisData, fps, originalDurationMs)
    /\ Mounted
    /\ ServerIdle

\* The words the emphasis tab lists: captionData.pages.flatMap(words).
ListedIndices ==
    {w.originalIndex : w \in Range(flatMapWords(CaptionData.pages))}

\* A click on a word of the emphasis tab.
ToggleEmphasis(wordIndex) ==
    /\ showControls
    /\ wordIndex \in ListedIndices
    /\ emphasisToggles' = handleEmphasisToggle(emphasisToggles, wordIndex)
    /\ UNCHANGED cutVars
    /\ UNCHANGED <<phase, fillerWords, pauses, cutsData, adjusted, words, emphasisData,
                   captionTiming>>
    /\ UNCHANGED <<timingFile, emphasisList, emphasisWords, showControls,
                   emphasisIndicesProp, localPosition, keyframes, frame, saveStatus>>
    /\ Rerender
    /\ UNCHANGED serverVars

\* The player or the renderer moves to frame f.
Seek(f) ==
    /\ timingFile = "json"
    /\ f < durationInFrames
    /\ frame' = f
    /\ UNCHANGED cutVars
    /\ UNCHANGED <<phase, fillerWords, pauses, cutsData, adjusted, words, emphasisData,
                   captionTiming>>
    /\ UNCHANGED <<timingFile, emphasisList, emphasisWords, showControls,
                   emphasisIndicesProp, localPosition, keyframes, emphasisToggles,
                   saveStatus>>
    /\ Rerender
    /\ UNCHANGED serverVars

NextToggles ==
    \/ \E wordIndex \in 0..MaxEditorWords - 1 : ToggleEmphasis(wordIndex)
    \/ \E f \in 0..MaxSeekFrame : Seek(f)

SpecToggles == InitToggles /\ [][NextToggles]_vars


\* The captionData of the earlier Video.tsx in the same state.
CaptionDataWithIndices ==
    captionDataWithIndices(baseCaptionData, emphasisIndicesProp, localPosition,
                           keyframes, emphasisToggles)

\* C21: in every caption timing, as generated, as overridden by
\* RemotionRoot and as derived by either Video.tsx after any toggles,
\* allWords is the concatenation of the pages' word lists in page order.
C21_AllWordsFlattened ==
    /\ captionTiming.allWords = flatMapWords(captionTiming.pages)
    /\ baseCaptionData.allWords = flatMapWords(baseCaptionData.pages)
    /\ CaptionData.allWords = flatMapWords(CaptionData.pages)
    /\ CaptionDataWithIndices.allWords = flatMapWords(CaptionDataWithIndices.pages)

\* Two pages, an emphasised word and a toggled word on the second page.
C21_Witness ==
    /\ showControls
    /\ Len(CaptionData.pages) = 2
    /\ \E k \in 1..Len(CaptionData.pages[2].words) :
        LET w == CaptionData.pages[2].words[k]
        IN  w.originalIndex \in emphasisToggles /\ ~w.isEmphasis
    /\ \E k \in 1..Len(CaptionData.allWords) :
        /\ CaptionData.allWords[k].isEmphasis
        /\ CaptionData.allWords[k].originalIndex \notin emphasisToggles

\* ws with the isEmphasis of the word of originalIndex i negated.
Flipped(ws, i) ==
    [k \in 1..Len(ws) |->
        IF ws[k].originalIndex = i THEN [ws[k] EXCEPT !.isEmphasis = ~@] ELSE ws[k]]

\* after is before with exactly the one word of originalIndex i flipped, in
\* allWords and in the pages, and nothing else changed.
OneToggleAway(before, after, i) ==
    /\ Cardinality({k \in 1..Len(before.allWords) :
                       before.allWords[k].originalIndex = i}) = 1
    /\ after.allWords = Flipped(before.allWords, i)
    /\ Len(after.pages) = Len(before.pages)
    /\ \A p \in 1..Len(before.pages) :
        after.pages[p] = [before.pages[p] EXCEPT !.words = Flipped(@, i)]
    /\ after = [before EXCEPT !.allWords = after.allWords, !.pages = after.pages]

\* C22: a toggle of an originalIndex flips the isEmphasis of exactly the
\* word with that originalIndex, in allWords and on its page, and changes
\* nothing else of any word; a second toggle of the same index restores the
\* state before the first.
C22_ToggleFlipsOne ==
    \A i \in ListedIndices :
        LET once == handleEmphasisToggle(emphasisToggles, i)
            twice == handleEmphasisToggle(once, i)
        IN  /\ OneToggleAway(CaptionData,
                             captionData(baseCaptionData, localPosition, keyframes, once),
                             i)
            /\ OneToggleAway(CaptionDataWithIndices,
                             captionDataWithIndices(baseCaptionData, emphasisIndicesProp,
                                                    localPosition, keyframes, once),
                             i)
            /\ twice = emphasisToggles
            /\ captionData(baseCaptionData, localPosition, keyframes, twice) = CaptionData

\* A word that follows a cut word, so that its originalIndex is not its
\* place in allWords, has been toggled and shows the opposite of its
\* stored isEmphasis.
C22_Witness ==
    /\ showControls
    /\ \E k \in 1..Len(CaptionData.allWords) :
        /\ CaptionData.allWords[k].originalIndex # k - 1
        /\ CaptionData.allWords[k].originalIndex \in emphasisToggles
        /\ CaptionData.allWords[k].isEmphasis # captionTiming.allWords[k].isEmphasis
    /\ \E k \in 1..Len(CaptionData.allWords) :
        CaptionData.allWords[k] = captionTiming.allWords[k]


---------------------------------------------------------------------------
(* save-server.ts: POST /save, and the control panel's position and        *)
(* keyframe handlers                                                       *)

\* A mutant of save: both fields are assigned whether the update holds
\* them or not.
saveAssignBoth(file, timing, body) ==
    IF ~body.valid \/ file # "json"
    THEN [status |-> 500, file |-> file, timing |-> timing]
    ELSE [status |-> 200, file |-> "json",
          timing |-> [timing EXCEPT !.positionKeyframes = body.positionKeyframes,
                                    !.position = body.position]]

\* The "end" handler of POST /save: parse the body, read and parse the
\* artifact, assign the fields of the update, write the artifact back;
\* any exception answers 500 before anything is written.
save(file, timing, body) ==
    IF ~body.valid \/ file # "json"
    THEN [status |-> 500, file |-> file, timing |-> timing]
    ELSE LET withKeyframes ==
                 IF body.hasKeyframes
                 THEN [timing EXCEPT !.positionKeyframes = body.positionKeyframes]
                 ELSE timing
             currentData ==
                 IF body.hasPosition
                 THEN [withKeyframes EXCEPT !.position = body.position]
                 ELSE withKeyframes
         IN  [status |-> 200, file |-> "json", timing |-> currentData]

\* JSON.stringify({positionKeyframes: keyframes, position: position})
handleSaveBody(kfs, position) ==
    [valid |-> TRUE, hasPosition |-> TRUE, position |-> position,
     hasKeyframes |-> TRUE, positionKeyframes |-> kfs]

KeyFrames == {0, 50, 100}

Positions == {[x |-> 50, y |-> 50], [x |-> 50, y |-> 80]}

\* Keyframe lists a client other than the control panel may post.
PostedLists ==
    {<<>>,
     <<[frame |-> 100, x |-> 50, y |-> 80], [frame |-> 0, x |-> 50, y |-> 50]>>,
     <<[frame |-> 50, x |-> 20, y |-> 80], [frame |-> 50, x |-> 50, y |-> 50]>>}

\* Bodies a client may post: fields an update lacks hold nothing.
SaveBodies ==
    {NoBody} \cup
    {b \in [valid : {TRUE}, hasPosition : BOOLEAN, position : Positions \cup {NoPosition},
            hasKeyframes : BOOLEAN, positionKeyframes : PostedLists] :
        /\ b.hasPosition <=> b.position # NoPosition
        /\ ~b.hasKeyframes => b.positionKeyframes = <<>>}

\* A recording of four seconds with one word spoken through all of it.
LongDurationMs == 4000

LongTranscript == <<[word |-> "w", start |-> 0, end |-> 2 * LongDurationMs]>>

InitKeyframes ==
    /\ phase = "timed"
    /\ CutIdle
    /\ fillerWords = <<>>
    /\ pauses = <<>>
    /\ cutsData = EmptyCuts
    /\ adjusted = <<>>
    /\ words = LongTranscript
    /\ emphasisData = {}
    /\ \/ /\ captionTiming =
               generateCaptionTiming(words, cutsData, emphasisData, fps, LongDurationMs)
          /\ Mounted
          /\ showControls
       \/ /\ captionTiming = NoTiming
          /\ timingFile \in {"missing", "invalid"}
          /\ emphasisList = <<>>
          /\ emphasisWords = <<>>
          /\ showControls = FALSE
          /\ emphasisIndicesProp = {}
          /\ localPosition = DEFAULT_POSITION
          /\ keyframes = <<>>
          /\ emphasisToggles = {}
          /\ frame = 0
          /\ shown = NoCaption
          /\ saveStatus = NoSave
    /\ ServerIdle

\* The save server answers a POST /save with this body.
PostSave(body) ==
    LET r == save(timingFile, captionTiming, body)
    IN  /\ timingFile' = r.file
        /\ captionTiming' = r.timing
        /\ saveStatus' = [valid |-> body.valid, hasPosition |-> body.hasPosition,
                          hasKeyframes |-> body.hasKeyframes, status |-> r.status]
        /\ UNCHANGED cutVars
        /\ UNCHANGED <<phase, fillerWords, pauses, cutsData, adjusted, words,
                       emphasisData>>
        /\ UNCHANGED <<emphasisList, emphasisWords, showControls, emphasisIndicesProp,
                       localPosition, keyframes, emphasisToggles, frame, shown>>
        /\ UNCHANGED serverVars

\* The SAVE button of the control panel.
HandleSave ==
    /\ showControls
    /\ PostSave(handleSaveBody(keyframes, localPosition))

\* The control panel replaces the keyframe list or the position.
PanelSets(kfs, position) ==
    /\ showControls
    /\ keyframes' = kfs
    /\ localPosition' = position
    /\ UNCHANGED cutVars
    /\ UNCHANGED <<phase, fillerWords, pauses, cutsData, adjusted, words, emphasisData,
                   captionTiming>>
    /\ UNCHANGED <<timingFile, emphasisList, emphasisWords, showControls,
                   emphasisIndicesProp, emphasisToggles, frame, saveStatus>>
    /\ Rerender
    /\ UNCHANGED serverVars

\* The X and Y sliders of the position tab.
SetPosition(position) == PanelSets(keyframes, position)

AddKeyframe == PanelSets(handleAddKeyframe(keyframes, frame, localPosition), localPosition)

\* The delete button of a listed keyframe.
DeleteKeyframe(f) ==
    /\ \E k \in Range(keyframes) : k.frame = f
    /\ PanelSets(handleDeleteKeyframe(keyframes, f), localPosition)

\* The X and Y sliders of a listed keyframe.
UpdateKeyframe(f, position) ==
    /\ \E k \in Range(keyframes) : k.frame = f
    /\ PanelSets(handleUpdateKeyframe(keyframes, f, position.x, position.y), localPosition)

NextKeyframes ==
    \/ \E body \in SaveBodies : PostSave(body)
    \/ HandleSave
    \/ \E position \in Positions : SetPosition(position)
    \/ AddKeyframe
    \/ \E f \in KeyFrames : DeleteKeyframe(f)
    \/ \E f \in KeyFrames, position \in Positions : UpdateKeyframe(f, position)
    \/ \E f \in KeyFrames : Seek(f)

SpecKeyframes == InitKeyframes /\ [][NextKeyframes]_vars


\* C23: a save whose body and artifact both parse answers 200 and replaces
\* in the artifact exactly the fields the body holds, position or
\* positionKeyframes; a field the body lacks and every other field keep
\* their stored values.  With the artifact missing or not JSON, or a body
\* that is not JSON, the save answers 500 and the artifact stays as it was.
C23_SaveMergesPresentFields ==
    \A body \in SaveBodies :
        LET r == save(timingFile, captionTiming, body)
        IN  IF body.valid /\ timingFile = "json"
            THEN /\ r.status = 200
                 /\ r.file = "json"
                 /\ r.timing.position =
                      IF body.hasPosition THEN body.position ELSE captionTiming.position
                 /\ r.timing.positionKeyframes =
                      IF body.hasKeyframes THEN body.positionKeyframes
                      ELSE captionTiming.positionKeyframes
                 /\ DOMAIN r.timing = DOMAIN captionTiming
                 /\ \A field \in DOMAIN captionTiming \ {"position", "positionKeyframes"} :
                      r.timing[field] = captionTiming[field]
            ELSE /\ r.status = 500
                 /\ r.file = timingFile
                 /\ r.timing = captionTiming

\* The last save held a position and no keyframes: the stored position is
\* the posted one and the keyframes stored before are still there.
C23_Witness ==
    /\ saveStatus = [valid |-> TRUE, hasPosition |-> TRUE, hasKeyframes |-> FALSE,
                     status |-> 200]
    /\ captionTiming.position = [x |-> 50, y |-> 50]
    /\ Len(captionTiming.positionKeyframes) = 2
    /\ captionTiming.pages # <<>>

StrictlyAscending(kfs) == \A i \in 1..Len(kfs) - 1 : kfs[i].frame < kfs[i + 1].frame

\* C25: from an empty list, after any adds, deletes and updates in the
\* control panel the keyframes are in ascending frame order with no frame
\* twice; an add at a frame that has a keyframe puts the new x and y in its
\* place and leaves the others and the length of the list as they were.
C25_KeyframesSortedUnique ==
    /\ StrictlyAscending(keyframes)
    /\ \A position \in Positions :
        LET added == handleAddKeyframe(keyframes, frame, position)
        IN  (\E k \in Range(keyframes) : k.frame = frame) =>
                /\ Len(added) = Len(keyframes)
                /\ \A i \in 1..Len(keyframes) :
                    added[i] = IF keyframes[i].frame = frame
                               THEN [frame |-> frame, x |-> position.x, y |-> position.y]
                               ELSE keyframes[i]

\* Three keyframes, the playhead on the middle one, whose position is not
\* the one the sliders show.
C25_Witness ==
    /\ Len(keyframes) = 3
    /\ frame = keyframes[2].frame
    /\ keyframes[2].y # localPosition.y
    /\ keyframes[1].y # keyframes[3].y


---------------------------------------------------------------------------
(* A render of a stored caption timing whose position and keyframes were   *)
(* written by any client of the save server                                *)

MaxStoredKeyframes == 3

StoredKeyframes == [frame : KeyFrames, x : {20, 50}, y : {50, 80}]

\* Any list, in any order, frames repeated or not.
StoredLists == SeqUpTo(StoredKeyframes, MaxStoredKeyframes)

SeekFrames == {0, 25, 50, 75, 100, 110}

\* Frames a lookup may be asked for, before and after every keyframe.
QueryFrames == SeekFrames \cup {-10, 500}

InitPosition ==
    /\ phase = "timed"
    /\ CutIdle
    /\ fillerWords = <<>>
    /\ pauses = <<>>
    /\ cutsData = EmptyCuts
    /\ adjusted = <<>>
    /\ words = LongTranscript
    /\ emphasisData = {}
    /\ \E kfs \in StoredLists, position \in Positions \cup {NoPosition} :
        captionTiming =
            [generateCaptionTiming(words, cutsData, emphasisData, fps, LongDurationMs)
                EXCEPT !.positionKeyframes = kfs, !.position = position]
    /\ Mounted
    /\ ~showControls
    /\ ServerIdle

NextPosition == \E f \in SeekFrames : Seek(f)

SpecPosition == InitPosition /\ [][NextPosition]_vars

DistinctFrames(kfs) ==
    \A i, j \in 1..Len(kfs) : i # j => kfs[i].frame # kfs[j].frame

\* The fraction q equals n / d.
Equals(q, n, d) == q.n * d = n * q.d

\* r is the position the keyframes kfs of distinct frames give at frame f.
PositionAt(r, f, kfs, staticPosition) ==
    IF kfs = <<>>
    THEN /\ r.x = Whole(IF staticPosition = NoPosition THEN 50 ELSE staticPosition.x)
         /\ r.y = Whole(IF staticPosition = NoPosition THEN 80 ELSE staticPosition.y)
    ELSE LET lo == CHOOSE k \in Range(kfs) : \A m \in Range(kfs) : k.frame <= m.frame
             hi == CHOOSE k \in Range(kfs) : \A m \in Range(kfs) : m.frame <= k.frame
         IN  IF f <= lo.frame THEN r.x = Whole(lo.x) /\ r.y = Whole(lo.y)
             ELSE IF f >= hi.frame THEN r.x = Whole(hi.x) /\ r.y = Whole(hi.y)
             ELSE LET a == CHOOSE k \in Range(kfs) :
                              /\ k.frame < f
                              /\ \A m \in Range(kfs) : m.frame < f => m.frame <= k.frame
                      b == CHOOSE k \in Range(kfs) :
                              /\ k.frame >= f
                              /\ \A m \in Range(kfs) : m.frame >= f => k.frame <= m.frame
                      span == b.frame - a.frame
                  IN  /\ Equals(r.x, a.x * span + (b.x - a.x) * (f - a.frame), span)
                      /\ Equals(r.y, a.y * span + (b.y - a.y) * (f - a.frame), span)

ExampleKeyframes ==
    <<[frame |-> 0, x |-> 50, y |-> 50], [frame |-> 100, x |-> 50, y |-> 80]>>

PlacesOf(kfs, f) == {i \in 1..Len(kfs) : kfs[i].frame = f}

\* C26: when the stored keyframes hold a frame twice, the lookup at that
\* frame does not fail and returns the position of the keyframe of that
\* frame that comes last in the collection.
C26_LastWriteWins ==
    LET kfs == captionTiming.positionKeyframes
    IN  \A f \in KeyFrames :
            Cardinality(PlacesOf(kfs, f)) >= 2 =>
                LET last == kfs[CHOOSE i \in PlacesOf(kfs, f) :
                                    \A j \in PlacesOf(kfs, f) : j <= i]
                    r == getInterpolatedPosition(f, kfs, localPosition)
                IN  /\ ~r.threw
                    /\ r.x = Whole(last.x)
                    /\ r.y = Whole(last.y)

\* The lookup never hands interpolate an input range that is not strictly
\* increasing, whatever frames the stored keyframes repeat.
C26_LookupNeverFails ==
    \A f \in QueryFrames :
        ~getInterpolatedPosition(f, captionTiming.positionKeyframes, localPosition).threw

\* At a repeated frame that is not the largest the lookup returns the
\* keyframe of that frame that comes first in the collection.
C26_FirstWinsBelowLargest ==
    LET kfs == captionTiming.positionKeyframes
    IN  \A f \in KeyFrames :
            (/\ Cardinality(PlacesOf(kfs, f)) >= 2
             /\ \E k \in Range(kfs) : k.frame > f) =>
                LET first == kfs[CHOOSE i \in PlacesOf(kfs, f) :
                                     \A j \in PlacesOf(kfs, f) : i <= j]
                    r == getInterpolatedPosition(f, kfs, localPosition)
                IN  r.x = Whole(first.x) /\ r.y = Whole(first.y)


---------------------------------------------------------------------------
(* Pages: 04-generate-timing.ts run on transcripts of up to ten words,     *)
(* and the composition mounted on what it wrote                            *)

MaxPageWords == 10
PageWordMs == 250
PageGapMs == 100

\* The recording ends after the last word.
PagesDurationMs == MaxPageWords * (PageWordMs + PageGapMs) + 1

\* Words in time order that touch (gap 0) or are PageGapMs apart.
PageTranscripts ==
    {[i \in 1..n |->
        [word |-> "w",
         start |-> 2 * (PageWordMs + gap) * (i - 1),
         end |-> 2 * ((PageWordMs + gap) * (i - 1) + PageWordMs)]] :
     n \in 0..MaxPageWords, gap \in {0, PageGapMs}}

PageCutStepMs == 700

PageCutTimes == {PageCutStepMs * k : k \in 0..PagesDurationMs \div PageCutStepMs}

MaxPageFrame == msToFrame(PagesDurationMs, fps) + 2 * pageTolerance

PageSeekFrames == {f \in 0..MaxPageFrame : f % 5 \in {0, 3}}

InitPages ==
    /\ phase = "input"
    /\ CutIdle
    /\ fillerWords = <<>>
    /\ pauses = <<>>
    /\ cutsData \in CutPlans(PageCutTimes, 1)
    /\ adjusted = <<>>
    /\ words \in PageTranscripts
    /\ emphasisData = {}
    /\ captionTiming = NoTiming
    /\ EditorIdle
    /\ ServerIdle

\* main() of 04-generate-timing.ts on this recording.
GeneratePages ==
    /\ phase = "input"
    /\ captionTiming' =
         generateCaptionTiming(words, cutsData, emphasisData, fps, PagesDurationMs)
    /\ timingFile' = "json"
    /\ phase' = "timed"
    /\ UNCHANGED cutVars
    /\ UNCHANGED <<fillerWords, pauses, cutsData, adjusted, words, emphasisData>>
    /\ UNCHANGED <<emphasisList, emphasisWords, showControls, emphasisIndicesProp,
                   localPosition, keyframes, emphasisToggles, frame, shown, saveStatus>>
    /\ UNCHANGED serverVars

\* The composition is mounted on the stored timing, by the studio
\* (controls) or by a render.
Mount(controls) ==
    /\ phase = "timed"
    /\ timingFile = "json"
    /\ phase' = "mounted"
    /\ showControls' = controls
    /\ emphasisIndicesProp' = IF controls THEN {} ELSE renderEmphasisIndices(captionTiming)
    /\ localPosition' =
         IF captionTiming.position = NoPosition THEN DEFAULT_POSITION
         ELSE captionTiming.position
    /\ keyframes' = captionTiming.positionKeyframes
    /\ emphasisToggles' = {}
    /\ frame' = 0
    /\ UNCHANGED cutVars
    /\ UNCHANGED <<fillerWords, pauses, cutsData, adjusted, words, emphasisData,
                   captionTiming>>
    /\ UNCHANGED <<timingFile, emphasisList, emphasisWords, saveStatus>>
    /\ Rerender
    /\ UNCHANGED serverVars

NextPages ==
    \/ GeneratePages
    \/ \E controls \in BOOLEAN : Mount(controls)
    \/ \E f \in PageSeekFrames : phase = "mounted" /\ Seek(f)

SpecPages == InitPages /\ [][NextPages]_vars


PageSizes(pages) == [p \in 1..Len(pages) |-> Len(pages[p].words)]

\* The originalIndex values of the words of ws that no segment cuts.
KeptIndices(ws, cuts) ==
    {i - 1 : i \in {j \in 1..Len(ws) :
                      ~isCut(roundMs(ws[j].start), roundMs(ws[j].end), cuts.segmentsToRemove)}}

\* C27: n kept words give ceil(n / wordsPerPage) pages; every page but the
\* last holds wordsPerPage words, the last between 1 and wordsPerPage; the
\* pages hold the kept words consecutively in transcript order; ten kept
\* words give pages of 4, 4 and 2 words.
C27_Pagination ==
    phase # "input" =>
        LET pages == captionTiming.pages
            kept == flatMapWords(pages)
            n == Cardinality(KeptIndices(words, cutsData))
        IN  /\ Len(kept) = n
            /\ {kept[k].originalIndex : k \in 1..n} = KeptIndices(words, cutsData)
            /\ \A k \in 1..n - 1 : kept[k].originalIndex < kept[k + 1].originalIndex
            /\ Len(pages) = (n + wordsPerPage - 1) \div wordsPerPage
            /\ \A p \in 1..Len(pages) - 1 : Len(pages[p].words) = wordsPerPage
            /\ \A p \in 1..Len(pages) :
                Len(pages[p].words) >= 1 /\ Len(pages[p].words) <= wordsPerPage
            /\ (n = 10 => PageSizes(pages) = <<4, 4, 2>>)

\* Ten kept words in three pages.
C27_Witness ==
    /\ phase = "timed"
    /\ Len(captionTiming.allWords) = 10
    /\ PageSizes(captionTiming.pages) = <<4, 4, 2>>

\* A cut plan that drops words, leaving a last page of three.
C27_WitnessCut ==
    /\ phase = "timed"
    /\ Len(words) = 10
    /\ PageSizes(captionTiming.pages) = <<4, 3>>

\* Each page starts where its first word starts and ends where its last
\* word ends, and does not end before it starts.
PageBoundsFromWords(pages) ==
    \A p \in 1..Len(pages) :
        /\ pages[p].startFrame = pages[p].words[1].startFrame
        /\ pages[p].endFrame = pages[p].words[Len(pages[p].words)].endFrame
        /\ pages[p].startFrame <= pages[p].endFrame

\* C29 as stated: in a generated timing every page takes its bounds from
\* its first and last word, and no frame lies in the closed ranges of two
\* pages.
C29_PagesDisjoint ==
    phase # "input" =>
        /\ PageBoundsFromWords(captionTiming.pages)
        /\ \A p, q \in 1..Len(captionTiming.pages) :
            p < q => captionTiming.pages[p].endFrame < captionTiming.pages[q].startFrame

\* C29: in a generated timing every page takes its bounds from its first
\* and last word, and the pages are in order: a page ends at or before the
\* frame at which the next one starts, so that two pages share at most the
\* frame where one ends and the next begins.
C29_PagesOrdered ==
    phase # "input" =>
        /\ PageBoundsFromWords(captionTiming.pages)
        /\ \A p, q \in 1..Len(captionTiming.pages) :
            p < q => captionTiming.pages[p].endFrame <= captionTiming.pages[q].startFrame

\* Three pages of touching words: the second starts on the frame the first
\* ends on.
C29_Witness ==
    /\ phase = "timed"
    /\ Len(captionTiming.pages) = 3
    /\ captionTiming.pages[1].endFrame = captionTiming.pages[2].startFrame
    /\ captionTiming.pages[2].endFrame = captionTiming.pages[3].startFrame
    /\ cutsData.segmentsToRemove # <<>>


\* The pages whose closed range holds frame f.
Containing(pages, f) ==
    {p \in 1..Len(pages) : pages[p].startFrame <= f /\ f <= pages[p].endFrame}

\* The pages that end before f and no earlier than any other that does.
LatestEndedBefore(pages, f) ==
    {p \in 1..Len(pages) :
        /\ pages[p].endFrame < f
        /\ \A q \in 1..Len(pages) :
            pages[q].endFrame < f => pages[q].endFrame <= pages[p].endFrame}

\* findCurrentPage on the mounted pages: a page that holds the frame; else
\* the latest page ended before it when that is at most pageTolerance
\* frames back; else none.  Three frames after the last page's end is the
\* last page, ten frames after is none.  The caption shown is that page.
C28_Lookup ==
    phase = "mounted" =>
        LET pages == CaptionData.pages
        IN  /\ \A f \in 0..MaxPageFrame :
                LET r == findCurrentPage(pages, f)
                IN  IF Containing(pages, f) # {} THEN r \in Containing(pages, f)
                    ELSE IF \E p \in LatestEndedBefore(pages, f) :
                                f - pages[p].endFrame <= 5
                         THEN r \in LatestEndedBefore(pages, f)
                         ELSE r = 0
            /\ pages # <<>> =>
                /\ findCurrentPage(pages, pages[Len(pages)].endFrame + 3) = Len(pages)
                /\ findCurrentPage(pages, pages[Len(pages)].endFrame + 10) = 0
            /\ shown.page = findCurrentPage(pages, frame)

\* A move of the playhead changes the frame and what is shown, nothing of
\* the timing or of the editor's state.
C28_SeekChangesNothing ==
    frame' # frame =>
        /\ UNCHANGED <<captionTiming, timingFile, localPosition, keyframes,
                       emphasisToggles, words, cutsData>>
        /\ CaptionData' = CaptionData

\* C28: findCurrentPage returns the page whose closed range holds the
\* frame, else the latest page ended before the frame when the frame is at
\* most 5 frames after its end, else no page; and the lookup modifies
\* nothing.
C28_FindCurrentPage == []C28_Lookup /\ [][C28_SeekChangesNothing]_vars

\* Three frames after the end of the second of three pages, before the
\* third starts: the second page is shown.
C28_Witness ==
    /\ phase = "mounted"
    /\ Len(CaptionData.pages) = 3
    /\ frame = CaptionData.pages[2].endFrame + 3
    /\ frame < CaptionData.pages[3].startFrame
    /\ shown.page = 2


---------------------------------------------------------------------------
(* 03-detect-emphasis.ts: the words left after the cuts and the            *)
(* reconciliation of the scoring suggestions with them.  A word's text is  *)
(* held as the list of its characters.                                     *)

UpperCase ==
    <<"A", "B", "C", "D", "E", "F", "G", "H", "I", "J", "K", "L", "M",
      "N", "O", "P", "Q", "R", "S", "T", "U", "V", "W", "X", "Y", "Z">>

LowerCase ==
    <<"a", "b", "c", "d", "e", "f", "g", "h", "i", "j", "k", "l", "m",
      "n", "o", "p", "q", "r", "s", "t", "u", "v", "w", "x", "y", "z">>

\* String.prototype.toLowerCase on one character.
toLowerCase(c) ==
    IF \E k \in 1..Len(UpperCase) : UpperCase[k] = c
    THEN LowerCase[CHOOSE k \in 1..Len(UpperCase) : UpperCase[k] = c]
    ELSE c

\* word.toLowerCase().replace(/[.,!?]/g, "")
RECURSIVE normalize(_)
normalize(chars) ==
    IF chars = <<>> THEN ""
    ELSE (IF Head(chars) \in {".", ",", "!", "?"} THEN "" ELSE toLowerCase(Head(chars)))
         \o normalize(Tail(chars))

skipWords ==
    {"a", "an", "the", "is", "are", "was", "were", "be", "been", "being",
     "have", "has", "had", "do", "does", "did", "will", "would", "could",
     "should", "may", "might", "must", "shall", "can", "need", "dare",
     "and", "or", "but", "if", "then", "else", "when", "where", "why",
     "how", "what", "which", "who", "whom", "whose", "that", "this",
     "these", "those", "it", "its", "i", "i'm", "you", "your", "he",
     "she", "we", "they", "me", "him", "her", "us", "them", "my", "our",
     "in", "on", "at", "to", "for", "of", "with", "by", "from", "up",
     "down", "out", "off", "over", "under", "again", "further", "once",
     "here", "there", "all", "each", "few", "more", "most", "other",
     "some", "such", "no", "nor", "not", "only", "own", "same", "so",
     "than", "too", "very", "just", "gonna", "gotta", "wanna"}

\* A mutant of getWordsAfterCuts: only a word lying wholly inside a
\* segment is left out.
RECURSIVE getWordsAfterCutsInside(_, _, _)
getWordsAfterCutsInside(ws, n, cuts) ==
    IF n = 0 THEN <<>>
    ELSE LET before == getWordsAfterCutsInside(ws, n - 1, cuts)
         IN  IF isCutInside(roundMs(ws[n].start), roundMs(ws[n].end),
                            cuts.segmentsToRemove)
             THEN before
             ELSE Append(before, [word |-> ws[n].word, index |-> n - 1])

\* getWordsAfterCuts: the words no segment overlaps, each with its index
\* in the transcript.
RECURSIVE getWordsAfterCuts(_, _, _)
getWordsAfterCuts(ws, n, cuts) ==
    IF n = 0 THEN <<>>
    ELSE LET before == getWordsAfterCuts(ws, n - 1, cuts)
         IN  IF isCut(roundMs(ws[n].start), roundMs(ws[n].end), cuts.segmentsToRemove)
             THEN before
             ELSE Append(before, [word |-> ws[n].word, index |-> n - 1])

\* The places in remaining of the words whose normalized text is
\* targetWord and whose index is not in usedIndices.
Unclaimed(remaining, targetWord, usedIndices) ==
    {j \in 1..Len(remaining) :
        normalize(remaining[j].word) = targetWord /\ remaining[j].index \notin usedIndices}

\* A mutant of reconcile: a suggestion takes the word at its reported
\* position.
RECURSIVE reconcileByPosition(_, _, _)
reconcileByPosition(remaining, list, k) ==
    IF k = 0 THEN <<>>
    ELSE LET before == reconcileByPosition(remaining, list, k - 1)
             item == list[k]
         IN  IF normalize(item.word) \in skipWords \/ item.position > Len(remaining)
             THEN before
             ELSE Append(before, [word |-> remaining[item.position].word,
                                  index |-> remaining[item.position].index,
                                  reason |-> item.reason])

\* The "for (const item of emphasisList)" loop after its first k items:
\* emphasisWords (usedIndices holds exactly their indices).
RECURSIVE reconcile(_, _, _)
reconcile(remaining, list, k) ==
    IF k = 0 THEN <<>>
    ELSE LET before == reconcile(remaining, list, k - 1)
             item == list[k]
             targetWord == normalize(item.word)
             usedIndices == {before[e].index : e \in 1..Len(before)}
             found == Unclaimed(remaining, targetWord, usedIndices)
         IN  IF targetWord \in skipWords \/ found = {} THEN before
             ELSE LET w == remaining[CHOOSE j \in found : \A m \in found : j <= m]
                  IN  Append(before, [word |-> w.word, index |-> w.index,
                                      reason |-> item.reason])

\* detectEmphasis once the response is parsed into emphasisList.
detectEmphasis(remaining, list) == reconcile(remaining, list, Len(list))

MaxEmphasisWords == 3
MaxSuggestions == 3

\* Texts a transcript word may have: "Go", "go!", "The", "now".
SpokenTexts == {<<"G", "o">>, <<"g", "o", "!">>, <<"T", "h", "e">>, <<"n", "o", "w">>}

\* Texts a suggestion may name: "go", "GO.", "the", "fast".
SuggestedTexts ==
    {<<"g", "o">>, <<"G", "O", ".">>, <<"t", "h", "e">>, <<"f", "a", "s", "t">>}

EmphasisTranscripts ==
    UNION {{[i \in 1..n |->
                [word |-> texts[i],
                 start |-> 2 * TickMs * (i - 1),
                 end |-> 2 * TickMs * i]] : texts \in [1..n -> SpokenTexts]} :
           n \in 0..MaxEmphasisWords}

\* The first word cut, or nothing cut.
EmphasisCutPlans ==
    {EmptyCuts,
     [segmentsToRemove |-> <<[startMs |-> 0, endMs |-> TickMs, reason |-> <<"edit">>]>>,
      totalCutDurationMs |-> TickMs]}

\* What the scoring service may answer: any words at any positions.
Suggestions ==
    SeqUpTo([word : SuggestedTexts, position : 1..2, reason : {"impact"}], MaxSuggestions)

InitEmphasis ==
    /\ phase = "input"
    /\ CutIdle
    /\ fillerWords = <<>>
    /\ pauses = <<>>
    /\ cutsData \in EmphasisCutPlans
    /\ adjusted = <<>>
    /\ words \in EmphasisTranscripts
    /\ emphasisData = {}
    /\ captionTiming = NoTiming
    /\ EditorIdle
    /\ ServerIdle

\* main() of 03-detect-emphasis.ts, the response of the scoring service
\* parsed into list.
DetectEmphasis(list) ==
    /\ phase = "input"
    /\ emphasisList' = list
    /\ emphasisWords' = detectEmphasis(getWordsAfterCuts(words, Len(words), cutsData), list)
    /\ emphasisData' = {emphasisWords'[e].index : e \in 1..Len(emphasisWords')}
    /\ phase' = "emphasized"
    /\ UNCHANGED cutVars
    /\ UNCHANGED <<fillerWords, pauses, cutsData, adjusted, words, captionTiming>>
    /\ UNCHANGED <<timingFile, showControls, emphasisIndicesProp, localPosition, keyframes,
                   emphasisToggles, frame, shown, saveStatus>>
    /\ UNCHANGED serverVars

NextEmphasis == \E list \in Suggestions : DetectEmphasis(list)

SpecEmphasis == InitEmphasis /\ [][NextEmphasis]_vars

\* The first n elements of the ascending list of the set S of numbers.
RECURSIVE FirstOf(_, _)
FirstOf(S, n) ==
    IF n = 0 \/ S = {} THEN {}
    ELSE LET least == CHOOSE a \in S : \A b \in S : a <= b
         IN  {least} \cup FirstOf(S \ {least}, n - 1)

\* C30: every emitted emphasis word is a kept word, with its index and
\* text, whose normalized text is that of a suggestion and is not in the
\* skip list; no index is emitted twice; and for every normalized text t
\* the emitted words of text t are the first m kept occurrences of t,
\* claimed in word order, m being the number of suggestions of text t (or
\* all occurrences when there are fewer), whatever positions the
\* suggestions report: a suggestion in the skip list, without a kept match
\* or with every match already claimed adds nothing.
C30_EmphasisReconciled ==
    phase = "emphasized" =>
        LET kept == getWordsAfterCuts(words, Len(words), cutsData)
            out == emphasisWords
            textOf(e) == normalize(out[e].word)
            asked(t) == {k \in 1..Len(emphasisList) : normalize(emphasisList[k].word) = t}
            spoken(t) == {kept[j].index : j \in {i \in 1..Len(kept) :
                                                    normalize(kept[i].word) = t}}
            emitted(t) == {out[e].index : e \in {d \in 1..Len(out) : textOf(d) = t}}
            texts == {normalize(emphasisList[k].word) : k \in 1..Len(emphasisList)}
                     \cup {textOf(e) : e \in 1..Len(out)}
        IN  /\ normalize(<<"G", "O", ".">>) = "go"
            /\ normalize(<<"g", "o", "!">>) = "go"
            /\ normalize(<<"T", "h", "e">>) = "the"
            /\ \A e \in 1..Len(out) :
                /\ \E j \in 1..Len(kept) :
                    kept[j].index = out[e].index /\ kept[j].word = out[e].word
                /\ ~isCut(roundMs(words[out[e].index + 1].start),
                          roundMs(words[out[e].index + 1].end), cutsData.segmentsToRemove)
                /\ asked(textOf(e)) # {}
                /\ textOf(e) \notin skipWords
            /\ \A d, e \in 1..Len(out) : d # e => out[d].index # out[e].index
            /\ \A t \in texts :
                emitted(t) = IF t \in skipWords THEN {}
                             ELSE FirstOf(spoken(t), Cardinality(asked(t)))
            /\ \A d, e \in 1..Len(out) :
                (d < e /\ textOf(d) = textOf(e)) => out[d].index < out[e].index

\* "Go", "go!" and "The" are kept; "GO." is suggested three times at
\* position 1 and "the" is not emitted: the two occurrences are claimed in
\* order and the third suggestion is discarded.
C30_Witness ==
    /\ phase = "emphasized"
    /\ Len(emphasisList) = 3
    /\ \A k \in 1..3 : emphasisList[k].word = <<"G", "O", ".">> /\ emphasisList[k].position = 1
    /\ Len(emphasisWords) = 2
    /\ emphasisWords[1].index < emphasisWords[2].index
    /\ emphasisWords[1].word = <<"G", "o">>
    /\ emphasisWords[2].word = <<"g", "o", "!">>
    /\ cutsData.segmentsToRemove # <<>>


---------------------------------------------------------------------------
(* 05-cut-video.ts: the spans kept around the removed segments             *)

\* The "build segments to KEEP" loop from currentPos on: the spans pushed
\* and the position after the last cut.  start and end are held in
\* milliseconds; the code writes them divided by 1000.
RECURSIVE keepLoop(_, _)
keepLoop(segs, currentPos) ==
    IF segs = <<>> THEN [keep |-> <<>>, currentPos |-> currentPos]
    ELSE LET cut == segs[1]
             rest == keepLoop(Tail(segs), cut.endMs)
         IN  [keep |-> (IF cut.startMs > currentPos
                        THEN <<[start |-> currentPos, end |-> cut.startMs]>>
                        ELSE <<>>) \o rest.keep,
              currentPos |-> rest.currentPos]

\* A mutant of segmentsToKeep: the span after the last cut is not added.
segmentsToKeepNoFinal(segs, durationMs) == keepLoop(segs, 0).keep

\* A mutant of segmentsToKeep: the loop starts at the first cut, so the
\* span before it is not added.
segmentsToKeepNoLead(segs, durationMs) ==
    LET loop == keepLoop(segs, IF segs = <<>> THEN 0 ELSE segs[1].startMs)
    IN  loop.keep \o (IF loop.currentPos < durationMs
                      THEN <<[start |-> loop.currentPos, end |-> durationMs]>>
                      ELSE <<>>)

\* segmentsToKeep as buildFFmpegFilter builds it: the loop, then the
\* final segment.
segmentsToKeep(segs, durationMs) ==
    LET loop == keepLoop(segs, 0)
    IN  loop.keep \o (IF loop.currentPos < durationMs
                      THEN <<[start |-> loop.currentPos, end |-> durationMs]>>
                      ELSE <<>>)

\* buildFFmpegFilter(cuts, durationMs).  keep stands for the filter: one
\* trim/atrim pair per kept span, concatenated in the order of the list.
buildFFmpegFilter(cuts, durationMs) ==
    IF cuts.segmentsToRemove = <<>>
    THEN [threw |-> FALSE, segmentCount |-> 0, keep |-> <<>>]
    ELSE LET keep == segmentsToKeep(cuts.segmentsToRemove, durationMs)
         IN  IF keep = <<>>
             THEN [threw |-> TRUE, segmentCount |-> 0, keep |-> <<>>]
             ELSE [threw |-> FALSE, segmentCount |-> Len(keep), keep |-> keep]

\* A mutant of cutVideoMain: ffmpeg is run with whatever the filter builder
\* returned; no error is raised for an empty list.
cutVideoMainNoCheck(cuts, durationMs, ffmpegExit) ==
    IF cuts.segmentsToRemove = <<>>
    THEN [ran |-> TRUE, threw |-> FALSE, copied |-> TRUE, ffmpeg |-> FALSE,
          exitCode |-> 0, keep |-> <<>>]
    ELSE [ran |-> TRUE, threw |-> FALSE, copied |-> FALSE, ffmpeg |-> TRUE,
          exitCode |-> ffmpegExit,
          keep |-> segmentsToKeep(cuts.segmentsToRemove, durationMs)]

\* main() of 05-cut-video.ts with its .catch: the input is copied when
\* there is nothing to cut; otherwise the filter is built and ffmpeg run
\* through execSync, which throws when ffmpeg exits with ffmpegExit # 0.
\* An error thrown anywhere is printed and the process exits with code 1.
cutVideoMain(cuts, durationMs, ffmpegExit) ==
    IF cuts.segmentsToRemove = <<>>
    THEN [ran |-> TRUE, threw |-> FALSE, copied |-> TRUE, ffmpeg |-> FALSE,
          exitCode |-> 0, keep |-> <<>>]
    ELSE LET built == buildFFmpegFilter(cuts, durationMs)
         IN  IF built.threw
             THEN [ran |-> TRUE, threw |-> TRUE, copied |-> FALSE, ffmpeg |-> FALSE,
                   exitCode |-> 1, keep |-> <<>>]
             ELSE [ran |-> TRUE, threw |-> FALSE, copied |-> FALSE, ffmpeg |-> TRUE,
                   exitCode |-> IF ffmpegExit = 0 THEN 0 ELSE 1,
                   keep |-> built.keep]

\* What the stage's process leaves for runPipelineStep: its exit code and
\* what console.error wrote to stderr.
CutOutcome(result) ==
    [event |-> "close", code |-> result.exitCode,
     text |-> IF result.exitCode = 0 THEN ""
              ELSE IF result.threw THEN "Error: No segments to keep after cuts!"
              ELSE "Error: Command failed: ffmpeg"]

MaxCutVideoMs == 5
MaxCutVideoSegs == 3

CutVideoTimes == 0..MaxCutVideoMs

\* One import is run through the five stages; the cut plan and the
\* recording's duration are what stages 2 and 1 write for this recording.
InitCutVideo ==
    /\ transcriptionDurationMs \in CutVideoTimes
    /\ cutVideo = NoCut
    /\ phase = "input"
    /\ fillerWords = <<>>
    /\ pauses = <<>>
    /\ cutsData \in CutPlans(CutVideoTimes, MaxCutVideoSegs)
    /\ adjusted = <<>>
    /\ words = <<>>
    /\ emphasisData = {}
    /\ captionTiming = NoTiming
    /\ EditorIdle
    /\ ServerIdle

\* Stages 1 to 3 of the run end.
EarlyStage(r, outcome) ==
    /\ r \in 1..Len(runs)
    /\ runs[r].step < 4
    /\ StageCloses(r, outcome)

\* Stage 4 ends: with exit code 0 it has written the caption timing.
TimingStage(r, outcome) ==
    /\ r \in 1..Len(runs)
    /\ runs[r].step = 4
    /\ StageEnds(r, outcome)
    /\ captionTiming' =
          IF runPipelineStep(outcome).success
          THEN generateCaptionTiming(words, cutsData, emphasisData, fps,
                                     transcriptionDurationMs)
          ELSE captionTiming
    /\ UNCHANGED <<cutVars, phase, fillerWords, pauses, cutsData, adjusted, words,
                   emphasisData>>
    /\ UNCHANGED editorVars

\* Stage 5 runs main() of 05-cut-video.ts and ends.
CutStage(r, ffmpegExit) ==
    /\ r \in 1..Len(runs)
    /\ runs[r].status = "running"
    /\ runs[r].step = 5
    /\ LET result == cutVideoMain(cutsData, transcriptionDurationMs, ffmpegExit)
       IN  /\ cutVideo' = result
           /\ StageEnds(r, CutOutcome(result))
    /\ UNCHANGED <<transcriptionDurationMs, phase, fillerWords, pauses, cutsData,
                   adjusted, words, emphasisData, captionTiming>>
    /\ UNCHANGED editorVars

FfmpegExits == {0, 1}

NextCutVideo ==
    \/ \E video \in Videos : Len(runs) < ObservedRuns /\ Import(video)
    \/ \E outcome \in ChildOutcomes : EarlyStage(1, outcome)
    \/ \E outcome \in ChildOutcomes : TimingStage(1, outcome)
    \/ \E ffmpegExit \in FfmpegExits : CutStage(1, ffmpegExit)

SpecCutVideo == InitCutVideo /\ [][NextCutVideo]_vars


---------------------------------------------------------------------------
(* C31, C32, C39: the cut stage                                            *)

\* A cut plan as the data model defines it: every segment non-empty, the
\* segments ascending with a gap between one and the next, and the total
\* the sum of the segment lengths.
ValidCutPlan(cuts) ==
    LET segs == cuts.segmentsToRemove
    IN  /\ \A i \in 1..Len(segs) : segs[i].startMs < segs[i].endMs
        /\ \A i \in 1..Len(segs) - 1 : segs[i].endMs < segs[i + 1].startMs
        /\ cuts.totalCutDurationMs = SumDurations(segs)

\* Every segment lies within [0, durationMs].
PlanWithin(cuts, durationMs) ==
    \A i \in 1..Len(cuts.segmentsToRemove) :
        /\ 0 <= cuts.segmentsToRemove[i].startMs
        /\ cuts.segmentsToRemove[i].endMs <= durationMs

\* The milliseconds [t, t + 1) of the recording that a segment removes.
RemovedMs(cuts) ==
    {t \in CutVideoTimes :
        \E i \in 1..Len(cuts.segmentsToRemove) :
            cuts.segmentsToRemove[i].startMs <= t /\ t < cuts.segmentsToRemove[i].endMs}

\* The spans of the recording in the file the stage wrote: the whole
\* recording when the input was copied, the trimmed spans otherwise.
OutputSpans(result, durationMs) ==
    IF result.copied
    THEN IF durationMs > 0 THEN <<[start |-> 0, end |-> durationMs]>> ELSE <<>>
    ELSE result.keep

\* The spans are the maximal non-empty intervals of [0, durationMs] that
\* no segment removes, ascending and disjoint; every millisecond of the
\* recording is in exactly one span or segment.
IsComplement(keep, cuts, durationMs) ==
    LET segs == cuts.segmentsToRemove
        removed == RemovedMs(cuts)
    IN  /\ \A i \in 1..Len(keep) :
            /\ 0 <= keep[i].start
            /\ keep[i].start < keep[i].end
            /\ keep[i].end <= durationMs
            /\ keep[i].start = 0 \/ (keep[i].start - 1) \in removed
            /\ keep[i].end = durationMs \/ keep[i].end \in removed
        /\ \A i \in 1..Len(keep) - 1 : keep[i].end < keep[i + 1].start
        /\ \A t \in 0..durationMs - 1 :
            Cardinality({i \in 1..Len(keep) : keep[i].start <= t /\ t < keep[i].end})
            + Cardinality({j \in 1..Len(segs) : segs[j].startMs <= t /\ t < segs[j].endMs})
            = 1

\* C31: for a valid cut plan whose segments lie within [0, durationMs],
\* the spans buildFFmpegFilter keeps are exactly the maximal non-empty
\* intervals of [0, durationMs] that no removed segment covers, in
\* ascending order and pairwise disjoint, and with the removed segments
\* they cover [0, durationMs] exactly once.  For a plan without segments
\* the stage copies the input, which keeps the whole recording.
C31_KeptSpansAreComplement ==
    (ValidCutPlan(cutsData) /\ PlanWithin(cutsData, transcriptionDurationMs)) =>
        LET built == buildFFmpegFilter(cutsData, transcriptionDurationMs)
        IN  /\ cutsData.segmentsToRemove # <<>> /\ ~built.threw =>
                /\ IsComplement(built.keep, cutsData, transcriptionDurationMs)
                /\ built.segmentCount = Len(built.keep)
            /\ built.threw =>
                \A t \in 0..transcriptionDurationMs - 1 : t \in RemovedMs(cutsData)
            /\ cutVideo.ran /\ ~cutVideo.threw =>
                IsComplement(OutputSpans(cutVideo, transcriptionDurationMs), cutsData,
                             transcriptionDurationMs)

\* A plan of two segments inside the recording was cut: three spans are
\* kept, the first from 0 and the last up to the duration.
C31_Witness ==
    /\ ValidCutPlan(cutsData)
    /\ PlanWithin(cutsData, transcriptionDurationMs)
    /\ Len(cutsData.segmentsToRemove) = 2
    /\ cutVideo.ran
    /\ cutVideo.ffmpeg
    /\ Len(cutVideo.keep) = 3
    /\ cutVideo.keep[1].start = 0
    /\ cutVideo.keep[3].end = transcriptionDurationMs


\* The removed segments cover the whole recording.
NothingToKeep(cuts, durationMs) ==
    /\ cuts.segmentsToRemove # <<>>
    /\ PlanWithin(cuts, durationMs)
    /\ \A t \in 0..durationMs - 1 : t \in RemovedMs(cuts)

\* The cut stage of run r has ended.
CutStageEnded(r) ==
    \E i \in 1..Len(stageLog[r]) :
        stageLog[r][i].step = totalSteps /\ stageLog[r][i].ev \in {"ok", "fail"}

\* C32: when the removed segments cover the whole recording, the cut
\* stage raises its error without running ffmpeg (and without copying the
\* input) and exits with a non-zero code; the run ends in error at the cut
\* stage, the last stage: its last event is the error event of that stage
\* carrying the message, no stage is started after it and
\* copyVideoToPublic is not called.
C32_NothingToKeepFails ==
    /\ NothingToKeep(cutsData, transcriptionDurationMs) =>
          /\ buildFFmpegFilter(cutsData, transcriptionDurationMs).threw
          /\ \A ffmpegExit \in FfmpegExits :
                LET result == cutVideoMain(cutsData, transcriptionDurationMs, ffmpegExit)
                IN  /\ result.threw /\ ~result.ffmpeg /\ ~result.copied
                    /\ result.exitCode # 0
                    /\ ~runPipelineStep(CutOutcome(result)).success
    /\ NothingToKeep(cutsData, transcriptionDurationMs) =>
          /\ cutVideo.ran => (cutVideo.threw /\ ~cutVideo.ffmpeg /\ ~cutVideo.copied)
          /\ \A k \in 1..Len(broadcasts) : broadcasts[k].status # "complete"
          /\ publicDir = {}
          /\ ~Has(tempDir, "cut_video")
          /\ \A r \in 1..Len(runs) :
                /\ copies[r] = 0
                /\ CutStageEnded(r) =>
                      /\ cutVideo.ran
                      /\ runs[r].status = "error"
                      /\ runs[r].step = totalSteps
                      /\ runs[r].error = "Error: No segments to keep after cuts!"
                      /\ Last(EventsOf(broadcasts, r)) =
                            ProgressEvent(r, totalSteps, PIPELINE_STEPS[totalSteps],
                                          "error",
                                          "Error: No segments to keep after cuts!")
                      /\ Last(stageLog[r]) = [step |-> totalSteps, ev |-> "fail"]
    /\ cutVideo.threw =>
          \A t \in 0..transcriptionDurationMs - 1 : t \in RemovedMs(cutsData)

\* A plan of one segment over the whole of a recording of non-zero length
\* reached the cut stage, which failed.
C32_Witness ==
    /\ transcriptionDurationMs > 0
    /\ ValidCutPlan(cutsData)
    /\ NothingToKeep(cutsData, transcriptionDurationMs)
    /\ cutVideo.ran
    /\ cutVideo.threw
    /\ CutStageEnded(1)
    /\ runs[1].status = "error"


\* The total length of a list of kept spans.
RECURSIVE SpanTotal(_)
SpanTotal(keep) ==
    IF keep = <<>> THEN 0 ELSE (keep[1].end - keep[1].start) + SpanTotal(Tail(keep))

\* C39: for a valid cut plan whose segments lie within
\* [0, originalDurationMs], the durationMs of the caption timing
\* (originalDurationMs - totalCutDurationMs) is at least 0 and equals the
\* total length of the spans that the cut stage keeps for the same plan
\* and duration (none when buildFFmpegFilter raises its error, the whole
\* recording when the plan has no segments).
C39_DurationIsKeptLength ==
    (ValidCutPlan(cutsData) /\ PlanWithin(cutsData, transcriptionDurationMs)) =>
        LET timing == generateCaptionTiming(words, cutsData, emphasisData, fps,
                                            transcriptionDurationMs)
            keep == segmentsToKeep(cutsData.segmentsToRemove, transcriptionDurationMs)
            built == buildFFmpegFilter(cutsData, transcriptionDurationMs)
        IN  /\ timing.durationMs >= 0
            /\ timing.durationMs = SpanTotal(keep)
            /\ cutsData.segmentsToRemove # <<>> => SpanTotal(built.keep) = timing.durationMs
            /\ Has(dataDir, "05_caption_timing") =>
                /\ captionTiming.durationMs >= 0
                /\ captionTiming.totalFrames = msToFrame(captionTiming.durationMs, fps)
                /\ cutVideo.ran =>
                     captionTiming.durationMs =
                        SpanTotal(OutputSpans(cutVideo, transcriptionDurationMs))

\* The timing stage and the cut stage both ran on a plan that removes
\* two segments and keeps spans on both sides: the caption timeline is
\* shorter than the recording and not empty.
C39_Witness ==
    /\ ValidCutPlan(cutsData)
    /\ PlanWithin(cutsData, transcriptionDurationMs)
    /\ Len(cutsData.segmentsToRemove) = 2
    /\ Has(dataDir, "05_caption_timing")
    /\ cutVideo.ran
    /\ cutVideo.ffmpeg
    /\ Len(cutVideo.keep) >= 2
    /\ captionTiming.durationMs > 0
    /\ captionTiming.durationMs < transcriptionDurationMs


---------------------------------------------------------------------------
(* 02-analyze-fillers.ts: analyzeFillers and the cut plan it leads to      *)

\* word.toLowerCase().replace(/[.,!?]/g, ""), as a list of characters.
normalizedChars(chars) ==
    LET lower == [i \in 1..Len(chars) |-> toLowerCase(chars[i])]
    IN  SelectSeq(lower, LAMBDA c : c \notin {".", ",", "!", "?"})

\* /^A+B+$/: one or more characters of A, then one or more of B.
RunsMatch(chars, A, B) ==
    \E k \in 1..Len(chars) - 1 :
        /\ \A i \in 1..k : chars[i] \in A
        /\ \A i \in k + 1..Len(chars) : chars[i] \in B

\* isFillerWord: FILLER_PATTERNS tested against the normalized word.
isFillerWord(chars) ==
    LET normalized == normalizedChars(chars)
    IN  \/ RunsMatch(normalized, {"u"}, {"h", "m"})
        \/ RunsMatch(normalized, {"e"}, {"r"})
        \/ RunsMatch(normalized, {"a"}, {"h"})
        \/ RunsMatch(normalized, {"h"}, {"m"})

detectMs == 500
autoRemoveMs == 1000

\* The fillers analyzeFillers pushes for words[from..]; index counts from 0.
RECURSIVE FillersOf(_, _)
FillersOf(ws, n) ==
    IF n = 0 THEN <<>>
    ELSE FillersOf(ws, n - 1) \o
         (IF isFillerWord(ws[n].word)
          THEN <<[word |-> ws[n].word,
                  startMs |-> roundMs(ws[n].start),
                  endMs |-> roundMs(ws[n].end),
                  index |-> n - 1,
                  autoRemove |-> TRUE]>>
          ELSE <<>>)

\* The pauses analyzeFillers pushes after words[1..n].
RECURSIVE PausesOf(_, _)
PausesOf(ws, n) ==
    IF n = 0 THEN <<>>
    ELSE PausesOf(ws, n - 1) \o
         (IF n < Len(ws)
          THEN LET gapMs == roundMs(ws[n + 1].start - ws[n].end)
               IN  IF gapMs >= detectMs
                   THEN <<[startMs |-> roundMs(ws[n].end),
                           endMs |-> roundMs(ws[n + 1].start),
                           durationMs |-> gapMs,
                           afterWordIndex |-> n - 1,
                           autoRemove |-> gapMs >= autoRemoveMs]>>
                   ELSE <<>>
          ELSE <<>>)

analyzeFillers(ws) ==
    [fillerWords |-> FillersOf(ws, Len(ws)), pauses |-> PausesOf(ws, Len(ws))]

MaxFillerWords == 3

\* Word times in half-milliseconds: 0, 300, 300.5, 900, 2000 and 2000.5 ms.
FillerTimes == {0, 600, 601, 1800, 4000, 4001}

FillerTexts == {<<"U", "m", ".">>, <<"h", "m", "m">>, <<"s", "o">>}

\* Words in time order, a word's start at or before its end.
RECURSIVE TimedWordLists(_, _)
TimedWordLists(n, from) ==
    IF n = 0 THEN {<<>>}
    ELSE {<<>>} \cup
         UNION {{<<w>> \o rest : rest \in TimedWordLists(n - 1, w.end)} :
                w \in {v \in [word : FillerTexts, start : FillerTimes, end : FillerTimes] :
                          from <= v.start /\ v.start <= v.end}}

InitFillers ==
    /\ phase = "input"
    /\ CutIdle
    /\ fillerWords = <<>>
    /\ pauses = <<>>
    /\ cutsData = EmptyCuts
    /\ adjusted = <<>>
    /\ words \in TimedWordLists(MaxFillerWords, 0)
    /\ emphasisData = {}
    /\ captionTiming = NoTiming
    /\ EditorIdle
    /\ ServerIdle

\* main() of 02-analyze-fillers.ts: the analysis and the cut plan are
\* computed from the transcription and written.
AnalyzeFillers ==
    /\ phase = "input"
    /\ LET analysis == analyzeFillers(words)
       IN  /\ fillerWords' = analysis.fillerWords
           /\ pauses' = analysis.pauses
           /\ cutsData' = generateCutsData(analysis.fillerWords, analysis.pauses)
    /\ phase' = "cuts"
    /\ UNCHANGED <<cutVars, adjusted, words, emphasisData, captionTiming>>
    /\ UNCHANGED editorVars
    /\ UNCHANGED serverVars

NextFillers == AnalyzeFillers

SpecFillers == InitFillers /\ [][NextFillers]_vars

\* C33: every segment of the cut plan that the filler analysis writes has
\* startMs < endMs, whatever the transcript (words whose start and end are
\* equal and gaps of any length included).
C33_SegmentsNonEmpty ==
    phase = "cuts" =>
        \A i \in 1..Len(cutsData.segmentsToRemove) :
            cutsData.segmentsToRemove[i].startMs < cutsData.segmentsToRemove[i].endMs

\* What does hold: no segment ends before it starts, an empty segment is
\* a filler word whose rounded start and end are equal, and a segment cut
\* from a pause is longer than detectMs.
C33_SegmentsNotInverted ==
    phase = "cuts" =>
        /\ \A i \in 1..Len(cutsData.segmentsToRemove) :
            LET seg == cutsData.segmentsToRemove[i]
            IN  /\ seg.startMs <= seg.endMs
                /\ seg.startMs = seg.endMs =>
                      \E k \in 1..Len(fillerWords) :
                          /\ fillerWords[k].startMs = seg.startMs
                          /\ fillerWords[k].endMs = seg.startMs
        /\ \A i \in 1..Len(PauseSegments(pauses)) :
            PauseSegments(pauses)[i].endMs - PauseSegments(pauses)[i].startMs > detectMs


---------------------------------------------------------------------------
(* C34, C35, C36: the marker, the archive and the files they hold          *)

RECURSIVE SeqOfSet(_)
SeqOfSet(S) ==
    IF S = {} THEN <<>>
    ELSE LET x == CHOOSE y \in S : TRUE IN <<x>> \o SeqOfSet(S \ {x})

\* listProjects(): one entry per directory of the archive, then the
\* current project when the marker is set and hasCurrentProject() holds.
\* The final sort by name permutes the list and is left out.
listProjects(d) ==
    LET archived == SeqOfSet(DOMAIN d.archive)
    IN  [i \in 1..Len(archived) |-> [name |-> archived[i], isCurrent |-> FALSE]]
        \o (IF d.project # NoProject /\ hasCurrentProject(d)
            THEN <<[name |-> d.project, isCurrent |-> TRUE]>>
            ELSE <<>>)

StoredFiles(e) ==
    {<<"input", f>> : f \in e.input} \cup {<<"data", f>> : f \in e.data}
    \cup {<<"output", f>> : f \in e.output} \cup {<<"temp", f>> : f \in e.temp}

\* Every file of project data on disk: those of the working stores and
\* those of every archive entry.
ProjectFiles(d) ==
    StoredFiles(StoresOf(d)) \cup UNION {StoredFiles(d.archive[n]) : n \in DOMAIN d.archive}

\* C35: no create, archive or load, successful or failed, loses project
\* data: every file that was in a working store or an archive entry
\* before the operation is in a working store or an archive entry after
\* it, from every reachable state (working stores with content and no
\* marker included).
C35_NoFileLost ==
    \A name \in LifecycleNames :
        /\ ProjectFiles(Disk) \subseteq ProjectFiles(createProject(Disk, name).disk)
        /\ ProjectFiles(Disk) \subseteq ProjectFiles(archiveProject(Disk, name).disk)
        /\ ProjectFiles(Disk) \subseteq ProjectFiles(loadProject(Disk, name).disk)

\* What does hold: create and the failed operations lose nothing, and a
\* successful archive under a name that is not in the archive, or a load
\* over working stores that are empty or belong to a marked project with
\* content of another name whose entry does not exist yet, lose nothing.
C35_SafeOperationsKeepFiles ==
    \A name \in LifecycleNames :
        /\ ProjectFiles(Disk) \subseteq ProjectFiles(createProject(Disk, name).disk)
              \/ (projectFile # NoProject /\ projectFile \in DOMAIN archive)
        /\ ~archiveProject(Disk, name).success =>
              archiveProject(Disk, name).disk = Disk
        /\ ~loadProject(Disk, name).success => loadProject(Disk, name).disk = Disk
        /\ name \notin DOMAIN archive =>
              ProjectFiles(Disk) \subseteq ProjectFiles(archiveProject(Disk, name).disk)
        /\ (StoresEmpty(Disk) \/ (/\ projectFile # NoProject
                                  /\ projectFile # name
                                  /\ hasCurrentProject(Disk)
                                  /\ projectFile \notin DOMAIN archive)) =>
              ProjectFiles(Disk) \subseteq ProjectFiles(loadProject(Disk, name).disk)


\* C36: archive(n) directly followed by load(n), for a name n that is not
\* in the archive and working stores that archive accepts: both succeed,
\* the working stores hold exactly what they held before the archive, the
\* archive is as it was before the archive and the marker is n.
C36_ArchiveThenLoad ==
    \A name \in LifecycleNames :
        (name \notin DOMAIN archive /\ hasCurrentProject(Disk)) =>
            LET archived == archiveProject(Disk, name)
                loaded == loadProject(archived.disk, name)
            IN  /\ archived.success
                /\ name \in DOMAIN archived.disk.archive
                /\ StoresEmpty(archived.disk)
                /\ loaded.success
                /\ StoresOf(loaded.disk) = StoresOf(Disk)
                /\ loaded.disk.archive = archive
                /\ loaded.disk.project = name

\* A project with files in all four working stores, with another name as
\* marker and another project in the archive, about to be archived as
\* "demo".
C36_Witness ==
    /\ <<"demo">> \notin DOMAIN archive
    /\ DOMAIN archive # {}
    /\ projectFile \notin {NoProject, <<"demo">>}
    /\ inputDir # {} /\ dataDir # {} /\ outputDir # {} /\ tempDir # {}


---------------------------------------------------------------------------
(* C37: every run ends, once                                               *)

\* A process that has emitted one of 'error' and 'close' emits the other:
\* 'close' after a failed spawn, or 'error' after the process has closed.
LateEvent(r, k, outcome) ==
    /\ r \in 1..Len(runs)
    /\ k \in 1..Len(children[r])
    /\ children[r][k].events # {}
    /\ ChildEvent(r, k, outcome)
    /\ UNCHANGED scriptVars

Stages == 1..totalSteps

MaxLateEvents == 2

\* The processes that have emitted both 'error' and 'close'.
LateEvents ==
    Cardinality({rk \in (1..Len(runs)) \X Stages :
        rk[2] <= Len(children[rk[1]]) /\
        Cardinality(children[rk[1]][rk[2]].events) = 2})

\* The server with its stage processes and a client that imports only
\* when no run is active; no observer.
NextStages ==
    \/ \E video \in Videos : ~RunActive /\ Len(runs) < MaxRuns /\ Import(video)
    \/ \E r \in 1..MaxRuns, outcome \in ChildOutcomes : StageCloses(r, outcome)
    \/ \E r \in 1..MaxRuns, k \in Stages, outcome \in ChildOutcomes :
          LateEvents < MaxLateEvents /\ LateEvent(r, k, outcome)

\* Every spawned stage process at some time exits or fails to spawn.
StagesEnd ==
    \A r \in 1..MaxRuns :
        WF_vars(\E outcome \in ChildOutcomes : StageCloses(r, outcome))

SpecStages == InitPipeline /\ [][NextStages]_vars /\ StagesEnd

TerminalEvents(r) ==
    SelectSeq(broadcasts, LAMBDA e : e.run = r /\ Terminal(e.status))

\* One result per stage, one outcome and one terminal event per run.
C37_OneResult ==
    /\ \A outcome \in ChildOutcomes :
          /\ outcome.code # 0 => ~runPipelineStep(outcome).success
          /\ runPipelineStep(outcome).success
                <=> (outcome.event = "close" /\ outcome.code = 0)
    /\ \A r \in 1..Len(runs) :
          /\ Len(children[r]) = runs[r].step
          /\ \A k \in 1..Len(children[r]) :
                LET child == children[r][k]
                    ended == Len(SelectSeq(stageLog[r],
                                  LAMBDA e : e.step = k /\ e.ev \in {"ok", "fail"}))
                IN  /\ child.promise.settled <=> child.events # {}
                    /\ ended = (IF child.promise.settled THEN 1 ELSE 0)
                    /\ child.promise.settled =>
                          (child.promise.result.success <=> (k < runs[r].step
                               \/ runs[r].status = "complete"))
                    /\ ~child.promise.settled =>
                          (k = runs[r].step /\ runs[r].status = "running")
          /\ Len(TerminalEvents(r)) = (IF Terminal(runs[r].status) THEN 1 ELSE 0)
          /\ Terminal(runs[r].status) =>
                /\ TerminalEvents(r)[1].status = runs[r].status
                /\ Last(EventsOf(broadcasts, r)) = TerminalEvents(r)[1]

\* A run that has ended stays as it is, and nothing more is broadcast for it.
C37_TerminalIsFinal ==
    \A r \in 1..Len(runs) :
        Terminal(runs[r].status) =>
            /\ runs'[r] = runs[r]
            /\ EventsOf(broadcasts', r) = EventsOf(broadcasts, r)

\* Every started run ends.
C37_RunsEnd ==
    \A r \in 1..MaxRuns :
        (Len(runs) >= r) ~> (Len(runs) >= r /\ Terminal(runs[r].status))

\* C37: when every stage process eventually exits or fails to spawn,
\* every started run eventually reaches a terminal outcome, exactly one,
\* and broadcasts exactly one terminal event; every stage yields exactly
\* one result, also when both 'error' and 'close' arrive for its process;
\* a non-zero exit code is always a failure.
C37_EveryRunEndsOnce ==
    /\ []C37_OneResult
    /\ [][C37_TerminalIsFinal]_vars
    /\ C37_RunsEnd

\* A run has ended in error at a stage whose process failed to spawn and
\* then closed; an earlier stage's process closed and then emitted 'error';
\* another run is complete.
C37_Witness ==
    /\ Len(runs) = 2
    /\ runs[1].status = "error"
    /\ runs[1].step = 2
    /\ children[1][2].events = {"error", "close"}
    /\ children[1][2].promise.result.error = "spawn npx ENOENT"
    /\ children[1][1].events = {"error", "close"}
    /\ children[1][1].promise.result.success
    /\ runs[2].status = "complete"


---------------------------------------------------------------------------
(* C38: emphasis detection and caption timing over one transcript and one  *)
(* cut plan                                                                *)

\* The transcripts of SpecTiming with spoken texts: "Go" and "now".
SpokenTranscripts ==
    UNION {{[i \in 1..Len(ws) |->
                [word |-> texts[i], start |-> ws[i].start, end |-> ws[i].end]] :
            texts \in [1..Len(ws) -> {<<"G", "o">>, <<"n", "o", "w">>}]} :
           ws \in Transcripts}

MaxTimedSuggestions == 2

TimedSuggestions ==
    SeqUpTo([word : {<<"g", "o">>, <<"N", "o", "w", ".">>}, position : {1},
             reason : {"impact"}], MaxTimedSuggestions)

InitCaptions ==
    /\ phase = "input"
    /\ CutIdle
    /\ fillerWords = <<>>
    /\ pauses = <<>>
    /\ cutsData \in CutPlans(TimingTimes, MaxTimingSegs)
    /\ adjusted = <<>>
    /\ words \in SpokenTranscripts
    /\ emphasisData = {}
    /\ captionTiming = NoTiming
    /\ EditorIdle
    /\ ServerIdle

\* main() of 04-generate-timing.ts, run after 03-detect-emphasis.ts on
\* the same transcription and cut plan.
TimeEmphasized ==
    /\ phase = "emphasized"
    /\ captionTiming' = generateCaptionTiming(words, cutsData, emphasisData, fps,
                                              originalDurationMs)
    /\ timingFile' = "json"
    /\ phase' = "timed"
    /\ UNCHANGED cutVars
    /\ UNCHANGED <<fillerWords, pauses, cutsData, adjusted, words, emphasisData>>
    /\ UNCHANGED <<emphasisList, emphasisWords, showControls, emphasisIndicesProp,
                   localPosition, keyframes, emphasisToggles, frame, shown, saveStatus>>
    /\ UNCHANGED serverVars

NextCaptions ==
    \/ \E list \in TimedSuggestions : DetectEmphasis(list)
    \/ TimeEmphasized

SpecCaptions == InitCaptions /\ [][NextCaptions]_vars

\* C38: for one transcript and one cut plan, the indices of the words
\* getWordsAfterCuts keeps are the originalIndex values of the caption
\* words of generateCaptionTiming, in the same order; so every index in
\* the emphasis artifact is the originalIndex of a caption word, and a
\* caption word has isEmphasis exactly when its originalIndex is in the
\* emphasis artifact.
C38_SameWordsRemain ==
    LET kept == getWordsAfterCuts(words, Len(words), cutsData)
        caps == CaptionWords(words, Len(words), cutsData, emphasisData, fps)
    IN  /\ [i \in 1..Len(kept) |-> kept[i].index]
              = [i \in 1..Len(caps) |-> caps[i].originalIndex]
        /\ \A i \in 1..Len(kept) : kept[i].word = caps[i].word
        /\ \A e \in 1..Len(emphasisWords) :
              \E i \in 1..Len(caps) : caps[i].originalIndex = emphasisWords[e].index
        /\ \A index \in emphasisData :
              \E i \in 1..Len(caps) : caps[i].originalIndex = index
        /\ phase = "timed" =>
              /\ captionTiming.allWords = caps
              /\ \A i \in 1..Len(captionTiming.allWords) :
                    captionTiming.allWords[i].isEmphasis
                       <=> captionTiming.allWords[i].originalIndex \in emphasisData
              /\ \A p \in 1..Len(captionTiming.pages) :
                    \A i \in 1..Len(captionTiming.pages[p].words) :
                       captionTiming.pages[p].words[i].isEmphasis
                          <=> captionTiming.pages[p].words[i].originalIndex \in emphasisData
              /\ Cardinality({i \in 1..Len(captionTiming.allWords) :
                                 captionTiming.allWords[i].isEmphasis})
                    = Cardinality(emphasisData)

\* Of two spoken words the first is cut; the second, which touches the
\* removed segment, remains, is emphasized by detection and is the one
\* caption word, with originalIndex 1.
C38_Witness ==
    /\ phase = "timed"
    /\ Len(words) = 2
    /\ cutsData.segmentsToRemove # <<>>
    /\ emphasisData = {1}
    /\ Len(captionTiming.allWords) = 1
    /\ captionTiming.allWords[1].originalIndex = 1
    /\ captionTiming.allWords[1].isEmphasis
    /\ \E k \in 1..Len(cutsData.segmentsToRemove) :
          cutsData.segmentsToRemove[k].endMs = roundMs(words[2].start)


---------------------------------------------------------------------------
(* C40: 'complete' follows the copy to the public store                    *)

\* The runs for which 'complete' is in a list of events.
CompletedIn(events) ==
    {events[k].run : k \in {i \in 1..Len(events) : events[i].status = "complete"}}

\* copyVideoToPublic has been called for run r and the public store holds
\* the cut video that run r wrote.
Published(r) ==
    /\ copies[r] = 1
    /\ publicDir = {File("video", r)}
    /\ File("cut_video", r) \in tempDir

=============================================================================
